---- MODULE Spec2Model ----
(***************************************************************************)
(* A model of the localclustering package: the incrementally maintained    *)
(* Cluster (cluster.py), the connectivity cluster definition               *)
(* (definitions/connectivity.py, definitions/util.py), the step history    *)
(* (history.py), the rank providers (ranking.py), the local cluster        *)
(* engines (localengine.py) and the hierarchical cluster engine            *)
(* (hierarchicalengine.py).                                                *)
(*                                                                         *)
(* A node object is a pair <<index, handle>>: index is Node.index, the     *)
(* identity the cluster's dictionaries are keyed by; handle tells apart    *)
(* two Python objects that carry the same index (handle 0 is the object    *)
(* the graph hands out, handle 1 a second object with the same index).     *)
(* The graph is a set of undirected edges {a, b} over indices.             *)
(* A Python dict keyed by index is the set of its values; the code never   *)
(* stores two values under one key.  Where the code enumerates a dict or   *)
(* a neighbor list, the model enumerates in ascending index order.         *)
(***************************************************************************)
EXTENDS Integers, Sequences, FiniteSets, TLC

\* Number of node indices of the graph the cluster operations run on.
NumNodes == 3
\* Longest list handed to a batch operation.
MaxBatch == 2
\* Longest step history built directly, and longest list of gain descriptors handed
\* to one record call.
MaxSteps == 3
MaxGains == 1
\* Longest list of gain descriptors handed to the adjustment of a definition, and the
\* largest number of adjustments of one definition.
MaxDescriptors == 2
MaxAdjustments == 2

VARIABLES
    graph,      \* the edges known so far: a set of two-element sets of indices
    cluster,    \* the Cluster object: source_nodes, nodes, neighbors, degree, listeners
    last,       \* the last call made on the cluster: op, none, items, err (and what
                \* the calls so far did: again, changed, left)
    promoted,   \* source nodes that were plain members when add_source_node marked them
    definition, \* the ConnectivityClusterDefinition of the engine
    engine,     \* LocalClusterEngine fields: source_nodes_in_result, max_cluster_size
                \* (and the two step counts of a MultiStepLocalClusterEngine)
    history,    \* StepHistory._history: the sequence of step descriptors
    pc,         \* position of execute_on
    hierarchical, \* HierarchicalClusterEngine fields: cluster_definition, min_cluster_size
    returned    \* the last call of a function of the history, the definition or a
                \* rank provider: op, args, value; calls counts the adjustments of
                \* the definition

vars ==
    <<graph, cluster, last, promoted, definition, engine, history, pc,
      hierarchical, returned>>

----------------------------------------------------------------------------
(* Nodes of the graph collaborator (graphscraper.base.Node), as used.      *)

Indices == 0 .. (NumNodes - 1)

\* Python's None where a node is expected.
None == <<-1, 0>>

\* The node object the graph hands out for an index.
NodeOf(i) == <<i, 0>>

\* A second object with the same index.
TwinOf(i) == <<i, 1>>

index(node) == node[1]

\* node.degree: the number of edges at the node.
degree(g, node) == Cardinality({e \in g : index(node) \in e})

NeighborIndices(g, node) == {j \in UNION g : {index(node), j} \in g /\ j # index(node)}

RECURSIVE Ascending(_)
Ascending(S) ==
    IF S = {} THEN <<>>
    ELSE LET m == CHOOSE x \in S : \A y \in S : x <= y
         IN <<m>> \o Ascending(S \ {m})

\* node.neighbors: the neighbor objects; they are handles of the same kind as node.
neighbors(g, node) ==
    LET idx == Ascending(NeighborIndices(g, node))
    IN [k \in 1 .. Len(idx) |-> <<idx[k], node[2]>>]

----------------------------------------------------------------------------
(* Cluster (cluster.py).  During a call the cluster record carries err,    *)
(* the exception raised so far ("none" if none); a raised exception skips  *)
(* the rest of the call and leaves the fields as they are at that point.   *)

EmptyCluster ==
    [source_nodes |-> {}, nodes |-> {}, neighbors |-> {}, degree |-> 0,
     listeners |-> {}]

Call(c) ==
    [source_nodes |-> c.source_nodes, nodes |-> c.nodes, neighbors |-> c.neighbors,
     degree |-> c.degree, listeners |-> c.listeners, err |-> "none"]

StateOf(r) ==
    [source_nodes |-> r.source_nodes, nodes |-> r.nodes, neighbors |-> r.neighbors,
     degree |-> r.degree, listeners |-> r.listeners]

Raise(c, e) == [c EXCEPT !.err = e]

\* dict.get(key): the value stored under key, or None.
get(d, key) ==
    IF \E o \in d : index(o) = key THEN CHOOSE o \in d : index(o) = key ELSE None

\* dict.keys()
Keys(d) == {index(o) : o \in d}

\* del dict[key]
del(d, key) == {o \in d : index(o) # key}

\* Cluster.__contains__: "True", "False" or "ValueError".
contains(c, node) ==
    IF node = None THEN "False"
    ELSE LET other_node == get(c.nodes, index(node))
         IN IF other_node # None
            THEN (IF other_node = node THEN "True" ELSE "ValueError")
            ELSE "False"

\* Cluster.is_neighbor: "True", "False" or "ValueError".
is_neighbor(c, node) ==
    IF node = None THEN "False"
    ELSE LET other_node == get(c.neighbors, index(node))
         IN IF other_node = None THEN "False"
            ELSE IF other_node # node THEN "ValueError"
            ELSE "True"

\* Cluster.is_source_node: "True", "False" or "ValueError".
is_source_node(c, node) ==
    IF node = None THEN "False"
    ELSE LET other_node == get(c.source_nodes, index(node))
         IN IF other_node # None
            THEN (IF other_node = node THEN "True" ELSE "ValueError")
            ELSE "False"

\* Cluster._add_neighbor_candidate
_add_neighbor_candidate(c, node) ==
    LET inc == contains(c, node)
    IN IF inc = "ValueError" THEN Raise(c, "ValueError")
       ELSE IF inc = "True" THEN c
       ELSE LET isn == is_neighbor(c, node)
            IN IF isn = "ValueError" THEN Raise(c, "ValueError")
               ELSE IF isn = "True" THEN c
               ELSE [c EXCEPT !.neighbors = @ \cup {node}]

\* for neighbor in node.neighbors: self._add_neighbor_candidate(neighbor)
RECURSIVE AddNeighborCandidates(_, _)
AddNeighborCandidates(c, seq) ==
    IF seq = <<>> \/ c.err # "none" THEN c
    ELSE AddNeighborCandidates(_add_neighbor_candidate(c, Head(seq)), Tail(seq))

\* The loop of _is_neighbor_of_cluster over the node's neighbors.
RECURSIVE AnyNeighborInCluster(_, _)
AnyNeighborInCluster(c, seq) ==
    IF seq = <<>> THEN "False"
    ELSE LET inc == contains(c, Head(seq))
         IN IF inc = "False" THEN AnyNeighborInCluster(c, Tail(seq)) ELSE inc

\* Cluster._is_neighbor_of_cluster: "True", "False" or "ValueError".
_is_neighbor_of_cluster(g, c, node) ==
    LET inc == contains(c, node)
    IN IF inc = "ValueError" THEN "ValueError"
       ELSE IF inc = "True" THEN "False"
       ELSE AnyNeighborInCluster(c, neighbors(g, node))

\* add_node that leaves the added node in the neighborhood.
add_node_keeps_neighborhood_entry(g, c, node) ==
    IF node = None THEN Raise(c, "ValueError")
    ELSE LET other_node == get(c.nodes, index(node))
         IN IF other_node # None
            THEN (IF other_node = node THEN c ELSE Raise(c, "ValueError"))
            ELSE AddNeighborCandidates(
                     [c EXCEPT !.nodes = @ \cup {node},
                               !.listeners = @ \cup {node},
                               !.degree = @ + degree(g, node)],
                     neighbors(g, node))

\* add_node that does not return early for a node that is already in the cluster.
add_node_without_membership_check(g, c, node) ==
    IF node = None THEN Raise(c, "ValueError")
    ELSE LET c1 == [c EXCEPT !.nodes = @ \cup {node},
                             !.listeners = @ \cup {node},
                             !.degree = @ + degree(g, node)]
             c2 == AddNeighborCandidates(c1, neighbors(g, node))
         IN IF c2.err # "none" THEN c2
            ELSE [c2 EXCEPT !.neighbors = del(@, index(node))]

\* Cluster.add_node
add_node(g, c, node) ==
    IF node = None THEN Raise(c, "ValueError")
    ELSE LET other_node == get(c.nodes, index(node))
         IN IF other_node # None
            THEN (IF other_node = node THEN c ELSE Raise(c, "ValueError"))
            ELSE LET c1 == [c EXCEPT !.nodes = @ \cup {node},
                                     !.listeners = @ \cup {node},
                                     !.degree = @ + degree(g, node)]
                     c2 == AddNeighborCandidates(c1, neighbors(g, node))
                     other == get(c2.neighbors, index(node))
                 IN IF c2.err # "none" THEN c2
                    ELSE IF other = None THEN c2
                    ELSE IF other = node
                         THEN [c2 EXCEPT !.neighbors = del(@, index(node))]
                         ELSE Raise(c2, "ValueError")

\* Cluster.add_source_node
add_source_node(g, c, node) ==
    IF node = None THEN Raise(c, "ValueError")
    ELSE LET other_source == get(c.source_nodes, index(node))
         IN IF other_source # None
            THEN (IF other_source = node THEN c ELSE Raise(c, "ValueError"))
            ELSE LET inc == contains(c, node)
                     c1 == IF inc = "ValueError" THEN Raise(c, "ValueError")
                           ELSE IF inc = "False" THEN add_node(g, c, node)
                           ELSE c
                 IN IF c1.err # "none" THEN c1
                    ELSE [c1 EXCEPT !.source_nodes = @ \cup {node}]

\* The loop of _remove_node_internal over the removed node's neighbors.
RECURSIVE DropFormerNeighbors(_, _, _)
DropFormerNeighbors(g, c, seq) ==
    IF seq = <<>> \/ c.err # "none" THEN c
    ELSE LET neighbor == Head(seq)
             isn == _is_neighbor_of_cluster(g, c, neighbor)
             c1 == IF isn = "ValueError" THEN Raise(c, "ValueError")
                   ELSE IF isn = "False" /\ get(c.neighbors, index(neighbor)) # None
                        THEN [c EXCEPT !.neighbors = del(@, index(neighbor))]
                        ELSE c
         IN DropFormerNeighbors(g, c1, Tail(seq))

\* _remove_node_internal that never puts the removed node into the neighborhood.
_remove_node_internal_without_readd(g, c, node) ==
    DropFormerNeighbors(g,
                        [c EXCEPT !.nodes = del(@, index(node)),
                                  !.listeners = @ \ {node},
                                  !.degree = @ - degree(g, node)],
                        neighbors(g, node))

\* _remove_node_internal that leaves the cluster degree as it was.
_remove_node_internal_keeps_degree(g, c, node) ==
    LET c1 == [c EXCEPT !.nodes = del(@, index(node)),
                        !.listeners = @ \ {node}]
        c2 == DropFormerNeighbors(g, c1, neighbors(g, node))
        isn == _is_neighbor_of_cluster(g, c2, node)
    IN IF c2.err # "none" THEN c2
       ELSE IF isn = "ValueError" THEN Raise(c2, "ValueError")
       ELSE IF isn = "True" THEN _add_neighbor_candidate(c2, node)
       ELSE c2

\* _remove_node_internal that leaves the handler registered on the removed node.
_remove_node_internal_keeps_listener(g, c, node) ==
    LET c1 == [c EXCEPT !.nodes = del(@, index(node)),
                        !.degree = @ - degree(g, node)]
        c2 == DropFormerNeighbors(g, c1, neighbors(g, node))
        isn == _is_neighbor_of_cluster(g, c2, node)
    IN IF c2.err # "none" THEN c2
       ELSE IF isn = "ValueError" THEN Raise(c2, "ValueError")
       ELSE IF isn = "True" THEN _add_neighbor_candidate(c2, node)
       ELSE c2

\* Cluster._remove_node_internal
_remove_node_internal(g, c, node) ==
    LET c1 == [c EXCEPT !.nodes = del(@, index(node)),
                        !.listeners = @ \ {node},
                        !.degree = @ - degree(g, node)]
        c2 == DropFormerNeighbors(g, c1, neighbors(g, node))
        isn == _is_neighbor_of_cluster(g, c2, node)
    IN IF c2.err # "none" THEN c2
       ELSE IF isn = "ValueError" THEN Raise(c2, "ValueError")
       ELSE IF isn = "True" THEN _add_neighbor_candidate(c2, node)
       ELSE c2

\* remove_source_node that removes any member, source or not.
remove_source_node_of_any_member(g, c, node) ==
    LET inc == contains(c, node)
    IN IF inc = "ValueError" THEN Raise(c, "ValueError")
       ELSE IF inc = "False" THEN c
       ELSE _remove_node_internal(
                g, [c EXCEPT !.source_nodes = del(@, index(node))], node)

\* Cluster.remove_source_node
remove_source_node(g, c, node) ==
    LET inc == contains(c, node)
        iss == is_source_node(c, node)
    IN IF inc = "ValueError" THEN Raise(c, "ValueError")
       ELSE IF inc = "False" THEN c
       ELSE IF iss = "ValueError" THEN Raise(c, "ValueError")
       ELSE IF iss = "False" THEN c
       ELSE _remove_node_internal(
                g, [c EXCEPT !.source_nodes = del(@, index(node))], node)

\* remove_node that does not ask whether the node is a source node.
remove_node_without_source_check(g, c, node) ==
    LET inc == contains(c, node)
    IN IF inc = "ValueError" THEN Raise(c, "ValueError")
       ELSE IF inc = "False" THEN c
       ELSE _remove_node_internal(
                g, [c EXCEPT !.source_nodes = del(@, index(node))], node)

\* Cluster.remove_node
remove_node(g, c, node) ==
    LET inc == contains(c, node)
        iss == is_source_node(c, node)
    IN IF inc = "ValueError" THEN Raise(c, "ValueError")
       ELSE IF inc = "False" THEN c
       ELSE IF iss = "ValueError" THEN Raise(c, "ValueError")
       ELSE IF iss = "True" THEN c
       ELSE _remove_node_internal(g, c, node)

(* The batch operations.  A list argument is a record: none tells whether  *)
(* the caller passed None instead of a list, items is the list.            *)

NoneList == [none |-> TRUE, items |-> <<>>]

ListOf(seq) == [none |-> FALSE, items |-> seq]

RECURSIVE ForEachAddNode(_, _, _)
ForEachAddNode(g, c, seq) ==
    IF seq = <<>> \/ c.err # "none" THEN c
    ELSE ForEachAddNode(g, add_node(g, c, Head(seq)), Tail(seq))

RECURSIVE ForEachAddSourceNode(_, _, _)
ForEachAddSourceNode(g, c, seq) ==
    IF seq = <<>> \/ c.err # "none" THEN c
    ELSE ForEachAddSourceNode(g, add_source_node(g, c, Head(seq)), Tail(seq))

RECURSIVE ForEachRemoveNode(_, _, _)
ForEachRemoveNode(g, c, seq) ==
    IF seq = <<>> \/ c.err # "none" THEN c
    ELSE ForEachRemoveNode(g, remove_node(g, c, Head(seq)), Tail(seq))

RECURSIVE ForEachRemoveSourceNode(_, _, _)
ForEachRemoveSourceNode(g, c, seq) ==
    IF seq = <<>> \/ c.err # "none" THEN c
    ELSE ForEachRemoveSourceNode(g, remove_source_node(g, c, Head(seq)), Tail(seq))

\* Cluster.add_nodes: iterating None raises TypeError.
add_nodes(g, c, nodes) ==
    IF nodes.none THEN Raise(c, "TypeError") ELSE ForEachAddNode(g, c, nodes.items)

\* Cluster.add_source_nodes: iterating None raises TypeError.
add_source_nodes(g, c, nodes) ==
    IF nodes.none THEN Raise(c, "TypeError")
    ELSE ForEachAddSourceNode(g, c, nodes.items)

\* Cluster.remove_source_nodes
remove_source_nodes(g, c, nodes) ==
    IF nodes.none THEN c ELSE ForEachRemoveSourceNode(g, c, nodes.items)

\* Cluster.remove_nodes
remove_nodes(g, c, nodes) ==
    IF nodes.none THEN c ELSE ForEachRemoveNode(g, c, nodes.items)

\* The handler without the degree update.
_node_neighbor_added_handler_without_degree(c, neighbor) ==
    _add_neighbor_candidate(c, neighbor)

\* Cluster._node_neighbor_added_handler, called with event.neighbor.
_node_neighbor_added_handler(c, neighbor) ==
    _add_neighbor_candidate([c EXCEPT !.degree = @ + 1], neighbor)

RECURSIVE SumDegrees(_, _)
SumDegrees(g, S) ==
    IF S = {} THEN 0
    ELSE LET n == CHOOSE x \in S : TRUE
         IN degree(g, n) + SumDegrees(g, S \ {n})

Range(seq) == {seq[k] : k \in 1 .. Len(seq)}

\* Cluster._validate_source_nodes: the problems found, as a set.
_validate_source_nodes(c) ==
    {<<"NoNodeWithKey", index(n)>> :
        n \in {s \in c.source_nodes : get(c.nodes, index(s)) = None}}
    \cup
    {<<"SourceAndNodeDiffer", index(n)>> :
        n \in {s \in c.source_nodes : get(c.nodes, index(s)) # s}}

\* Cluster._validate_nodes: problems is the set of problems found, err the exception
\* raised by a membership test on the way.
_validate_nodes(g, c) ==
    LET pairs == {<<node, neighbor>> \in c.nodes \X (UNION {Range(neighbors(g, m)) : m \in c.nodes}) :
                      neighbor \in Range(neighbors(g, node))}
        raises(p) == \/ contains(c, p[2]) = "ValueError"
                     \/ /\ contains(c, p[2]) = "False"
                        /\ is_neighbor(c, p[2]) = "ValueError"
        uncovered(p) == contains(c, p[2]) = "False" /\ is_neighbor(c, p[2]) = "False"
        cluster_degree == SumDegrees(g, c.nodes)
    IN [problems |->
            {<<"NeitherInClusterNorNeighborhood", index(p[2]), index(p[1])>> :
                p \in {q \in pairs : uncovered(q)}}
            \cup
            (IF cluster_degree # c.degree
             THEN {<<"IncorrectClusterDegree", cluster_degree, c.degree>>}
             ELSE {}),
        err |-> IF \E p \in pairs : raises(p) THEN "ValueError" ELSE "none"]

\* Cluster._validate_neighborhood
_validate_neighborhood(g, c) ==
    [problems |->
        {<<"NotANeighborOfTheCluster", index(n)>> :
            n \in {m \in c.neighbors : _is_neighbor_of_cluster(g, c, m) = "False"}},
     err |-> IF \E m \in c.neighbors : _is_neighbor_of_cluster(g, c, m) = "ValueError"
             THEN "ValueError" ELSE "none"]

\* validate without the check of the neighborhood.
validate_without_neighborhood(g, c) ==
    LET vn == _validate_nodes(g, c)
    IN [problems |-> _validate_source_nodes(c) \cup vn.problems, err |-> vn.err]

\* Cluster.validate: the list of problems (as a set) and the exception raised, if any.
validate(g, c) ==
    LET vn == _validate_nodes(g, c)
        vh == _validate_neighborhood(g, c)
    IN [problems |-> _validate_source_nodes(c) \cup vn.problems \cup vh.problems,
        err |-> IF vn.err # "none" THEN vn.err ELSE vh.err]

----------------------------------------------------------------------------
(* The state machine of a cluster used through its public operations while *)
(* the graph grows.                                                        *)

GraphNodes == {NodeOf(i) : i \in Indices}

TwinNodes == {TwinOf(i) : i \in Indices}

AllEdges == {{a, b} : a, b \in Indices} \ {{a} : a \in Indices}

RECURSIVE SeqsUpTo(_, _)
SeqsUpTo(S, n) ==
    IF n = 0 THEN {<<>>}
    ELSE LET shorter == SeqsUpTo(S, n - 1)
         IN shorter \cup {Append(q, x) : q \in shorter, x \in S}

\* The arguments a caller can pass for a node, and for a list of nodes.
NodeArgs == GraphNodes \cup {None}

ListArgs == {NoneList} \cup {ListOf(q) : q \in SeqsUpTo(GraphNodes, MaxBatch)}

NoCall ==
    [op |-> "init", none |-> FALSE, items |-> <<>>, err |-> "none",
     again |-> FALSE, changed |-> FALSE, left |-> {}]

SingleNodeOps == {"add_node", "add_source_node", "remove_node", "remove_source_node"}

\* ConnectivityClusterDefinition.__init__ defaults; a number is a pair <<numerator, denominator>>.
DefaultDefinition ==
    [weighting_coefficient |-> <<2, 1>>, threshold_modifier |-> <<17, 20>>]

\* LocalClusterEngine.__init__ defaults.
DefaultEngine == [source_nodes_in_result |-> TRUE, max_cluster_size |-> 100]

\* HierarchicalClusterEngine.__init__ defaults.
DefaultHierarchical ==
    [cluster_definition |-> DefaultDefinition, min_cluster_size |-> 15]

\* No function call made yet.
NoReturn == [op |-> "none", args |-> <<>>, value |-> FALSE, calls |-> 0]

EngineIdle ==
    /\ definition = DefaultDefinition
    /\ engine = DefaultEngine
    /\ history = <<>>
    /\ pc = "idle"
    /\ hierarchical = DefaultHierarchical
    /\ returned = NoReturn

Init ==
    /\ graph = {}
    /\ cluster = EmptyCluster
    /\ last = NoCall
    /\ promoted = {}
    /\ EngineIdle

\* The bookkeeping shared by every call: r is the cluster record the call ended with.
\* last keeps the node argument of a single-node call and the two ends of an added
\* edge; of a batch call it keeps only whether the list was None.  again tells that
\* a single-node call repeats the call before it, changed that the call changed the
\* cluster, left which nodes the last call of a cluster operation removed from the
\* cluster (the addition of an edge is no such call and keeps the set).
Returned(op, none, items, r) ==
    /\ cluster' = StateOf(r)
    /\ last' = [op |-> op, none |-> none, items |-> items, err |-> r.err,
                again |-> op \in SingleNodeOps /\ op = last.op /\ items = last.items,
                changed |-> StateOf(r) # cluster,
                left |-> IF op = "add_edge" THEN last.left
                         ELSE cluster.nodes \ r.nodes]
    /\ promoted' = (promoted \cup {n \in r.source_nodes \ cluster.source_nodes :
                                      n \in cluster.nodes})
                   \cap r.source_nodes
    /\ UNCHANGED <<definition, engine, history, pc, hierarchical, returned>>

AddNode(node) ==
    /\ Returned("add_node", FALSE, <<node>>, add_node(graph, Call(cluster), node))
    /\ UNCHANGED graph

AddSourceNode(node) ==
    /\ Returned("add_source_node", FALSE, <<node>>,
                add_source_node(graph, Call(cluster), node))
    /\ UNCHANGED graph

RemoveNode(node) ==
    /\ Returned("remove_node", FALSE, <<node>>,
                remove_node(graph, Call(cluster), node))
    /\ UNCHANGED graph

RemoveSourceNode(node) ==
    /\ Returned("remove_source_node", FALSE, <<node>>,
                remove_source_node(graph, Call(cluster), node))
    /\ UNCHANGED graph

AddNodes(nodes) ==
    /\ Returned("add_nodes", nodes.none, <<>>,
                add_nodes(graph, Call(cluster), nodes))
    /\ UNCHANGED graph

AddSourceNodes(nodes) ==
    /\ Returned("add_source_nodes", nodes.none, <<>>,
                add_source_nodes(graph, Call(cluster), nodes))
    /\ UNCHANGED graph

RemoveNodes(nodes) ==
    /\ Returned("remove_nodes", nodes.none, <<>>,
                remove_nodes(graph, Call(cluster), nodes))
    /\ UNCHANGED graph

RemoveSourceNodes(nodes) ==
    /\ Returned("remove_source_nodes", nodes.none, <<>>,
                remove_source_nodes(graph, Call(cluster), nodes))
    /\ UNCHANGED graph

\* The graph gains the edge a-b: node a, then node b, dispatches NeighborAddedEvent to
\* the handlers registered on it (each node's adjacency already holds the new edge
\* when its event is dispatched).
NeighborAdded(g, c, a, b) ==
    LET c1 == IF NodeOf(a) \in c.listeners
              THEN _node_neighbor_added_handler(c, NodeOf(b)) ELSE c
    IN IF c1.err = "none" /\ NodeOf(b) \in c1.listeners
       THEN _node_neighbor_added_handler(c1, NodeOf(a)) ELSE c1

AddEdge(a, b) ==
    /\ a # b
    /\ {a, b} \notin graph
    /\ graph' = graph \cup {{a, b}}
    /\ Returned("add_edge", FALSE, <<NodeOf(a), NodeOf(b)>>,
                NeighborAdded(graph \cup {{a, b}}, Call(cluster), a, b))

Next ==
    \/ \E node \in NodeArgs : AddNode(node)
    \/ \E node \in NodeArgs : AddSourceNode(node)
    \/ \E node \in NodeArgs : RemoveNode(node)
    \/ \E node \in NodeArgs : RemoveSourceNode(node)
    \/ \E nodes \in ListArgs : AddNodes(nodes)
    \/ \E nodes \in ListArgs : AddSourceNodes(nodes)
    \/ \E nodes \in ListArgs : RemoveNodes(nodes)
    \/ \E nodes \in ListArgs : RemoveSourceNodes(nodes)
    \/ \E a, b \in Indices : AddEdge(a, b)

Spec == Init /\ [][Next]_vars

(* The same cluster on a graph that does not change, called with node      *)
(* objects of both kinds: a call may meet a different object under an      *)
(* index the cluster already tracks.  The ValueError such a call raises is *)
(* fatal to the caller: no further call follows it.                        *)

InitConflict ==
    /\ graph \in SUBSET AllEdges
    /\ cluster = EmptyCluster
    /\ last = NoCall
    /\ promoted = {}
    /\ EngineIdle

NextConflict ==
    \/ \E node \in GraphNodes \cup TwinNodes : last.err = "none" /\ AddNode(node)
    \/ \E node \in GraphNodes \cup TwinNodes : last.err = "none" /\ AddSourceNode(node)
    \/ \E node \in GraphNodes \cup TwinNodes : last.err = "none" /\ RemoveNode(node)
    \/ \E node \in GraphNodes \cup TwinNodes :
            last.err = "none" /\ RemoveSourceNode(node)

SpecConflict == InitConflict /\ [][NextConflict]_vars

----------------------------------------------------------------------------
(* Numbers of the cluster definition.  The code computes with Python       *)
(* floats; the model computes exactly, a number being a pair               *)
(* <<numerator, denominator>> in lowest terms with a positive denominator. *)

RECURSIVE GCD(_, _)
GCD(a, b) == IF b = 0 THEN a ELSE GCD(b, a % b)

Rat(n, d) ==
    LET k == GCD(IF n < 0 THEN -n ELSE n, d)
    IN <<n \div k, d \div k>>

RMul(x, y) == Rat(x[1] * y[1], x[2] * y[2])

\* x / y for y > 0
RDiv(x, y) == Rat(x[1] * y[2], x[2] * y[1])

RLess(x, y) == x[1] * y[2] < y[1] * x[2]

RMin(x, y) == IF RLess(y, x) THEN y ELSE x

Zero == <<0, 1>>

----------------------------------------------------------------------------
(* Gain descriptors (definitions/util.py, definitions/connectivity.py).    *)

\* What a constructor call that raised TypeError leaves: no object.
NoDescriptor ==
    [err |-> "TypeError", node |-> None, result |-> FALSE,
     weighting_coefficient |-> Zero, coefficient_multiplier |-> Zero]

\* GainDescriptor.__init__(self, node, result, weighting_coefficient,
\* coefficient_multiplier=0), called with the positional arguments args: Python raises
\* TypeError when a parameter without a default gets no argument.
GainDescriptor(args) ==
    IF Len(args) < 3 \/ Len(args) > 4 THEN NoDescriptor
    ELSE [err |-> "none", node |-> args[1], result |-> args[2],
          weighting_coefficient |-> args[3],
          coefficient_multiplier |-> IF Len(args) = 4 THEN args[4] ELSE Zero]

\* ConnectivityGainDescriptor.__init__: it calls the base initializer with
\* (node, result) and then sets its two fields.
ConnectivityGainDescriptor(node, result, weighting_coefficient, coefficient_multiplier) ==
    LET base == GainDescriptor(<<node, result>>)
    IN IF base.err # "none" THEN base
       ELSE [base EXCEPT !.weighting_coefficient = weighting_coefficient,
                         !.coefficient_multiplier = coefficient_multiplier]

----------------------------------------------------------------------------
(* ConnectivityClusterDefinition (definitions/connectivity.py).            *)

\* The loop adding weighting_coefficient for every neighbor that is in the cluster.
quality_difference(d, g, c, node) ==
    RMul(d.weighting_coefficient,
         <<Cardinality({k \in 1 .. Len(neighbors(g, node)) :
                           contains(c, neighbors(g, node)[k]) = "True"}), 1>>)

\* threshold_modifier * min(max(cluster_size - 2, 0), node_degree,
\*                          cluster_degree / cluster_size)
threshold(d, g, c, node) ==
    LET cluster_size == Cardinality(c.nodes)
        size_term == IF cluster_size - 2 > 0 THEN cluster_size - 2 ELSE 0
    IN RMul(d.threshold_modifier,
            RMin(RMin(<<size_term, 1>>, <<degree(g, node), 1>>),
                 Rat(c.degree, cluster_size)))

\* ConnectivityClusterDefinition.gain_of_inclusion
gain_of_inclusion(d, g, c, node) ==
    LET q == quality_difference(d, g, c, node)
    IN IF RLess(Zero, q)
       THEN ConnectivityGainDescriptor(
                node, ~RLess(q, threshold(d, g, c, node)),
                d.weighting_coefficient, RDiv(threshold(d, g, c, node), q))
       ELSE ConnectivityGainDescriptor(node, FALSE, d.weighting_coefficient, Zero)

\* ConnectivityClusterDefinition.gain_of_exclusion
gain_of_exclusion(d, g, c, node) ==
    LET q == quality_difference(d, g, c, node)
    IN IF RLess(Zero, q)
       THEN ConnectivityGainDescriptor(
                node, RLess(q, threshold(d, g, c, node)),
                d.weighting_coefficient, RDiv(threshold(d, g, c, node), q))
       ELSE ConnectivityGainDescriptor(node, TRUE, d.weighting_coefficient, Zero)

RMax(x, y) == IF RLess(x, y) THEN y ELSE x

One == <<1, 1>>

\* The floor of the multiplier applied by an adjustment: 1.05.
MinimumMultiplier == <<21, 20>>

\* The loop of adjust_definition_for_next_hierarchy_level: the smallest
\* coefficient_multiplier above 1 among the descriptors, starting from
\* coefficient_multiplier (None when no descriptor seen so far had one above 1).
RECURSIVE SmallestMultiplierAboveOne(_, _)
SmallestMultiplierAboveOne(gain_descriptors, coefficient_multiplier) ==
    IF gain_descriptors = <<>> THEN coefficient_multiplier
    ELSE LET descriptor == Head(gain_descriptors)
         IN SmallestMultiplierAboveOne(
                Tail(gain_descriptors),
                IF RLess(One, descriptor.coefficient_multiplier)
                   /\ (\/ coefficient_multiplier = None
                       \/ RLess(descriptor.coefficient_multiplier, coefficient_multiplier))
                THEN descriptor.coefficient_multiplier
                ELSE coefficient_multiplier)

\* The adjustment without the floor of 1.05.
adjust_without_floor(d, gain_descriptors) ==
    IF gain_descriptors.none \/ Len(gain_descriptors.items) = 0
    THEN [definition |-> d, value |-> FALSE]
    ELSE LET coefficient_multiplier ==
                 SmallestMultiplierAboveOne(gain_descriptors.items, None)
         IN IF coefficient_multiplier = None
            THEN [definition |-> d, value |-> FALSE]
            ELSE [definition |->
                      [d EXCEPT !.weighting_coefficient = RMul(@, coefficient_multiplier)],
                  value |-> TRUE]

\* ConnectivityClusterDefinition.adjust_definition_for_next_hierarchy_level: the
\* definition after the call and the value returned.
adjust_definition_for_next_hierarchy_level(d, gain_descriptors) ==
    IF gain_descriptors.none \/ Len(gain_descriptors.items) = 0
    THEN [definition |-> d, value |-> FALSE]
    ELSE LET coefficient_multiplier ==
                 SmallestMultiplierAboveOne(gain_descriptors.items, None)
         IN IF coefficient_multiplier = None
            THEN [definition |-> d, value |-> FALSE]
            ELSE [definition |->
                      [d EXCEPT !.weighting_coefficient =
                           RMul(@, RMax(coefficient_multiplier, MinimumMultiplier))],
                  value |-> TRUE]

\* clone writing the values of the new object into self.
clone_into_self(self) ==
    [self |-> [self EXCEPT !.threshold_modifier = DefaultDefinition.threshold_modifier,
                           !.weighting_coefficient =
                               DefaultDefinition.weighting_coefficient],
     base |-> DefaultDefinition]

\* ConnectivityClusterDefinition.clone() with no base: self after the call and the
\* new object returned.
clone(self) ==
    [self |-> self,
     base |-> [DefaultDefinition EXCEPT
                  !.threshold_modifier = self.threshold_modifier,
                  !.weighting_coefficient = self.weighting_coefficient]]

----------------------------------------------------------------------------
(* StepDescriptor and StepHistory (history.py).  A step descriptor holds   *)
(* four dicts from node index to gain descriptor, each modelled as the     *)
(* set of its gain descriptors.                                            *)

\* StepDescriptor.__init__
StepDescriptor == [added |-> {}, not_added |-> {}, removed |-> {}, not_removed |-> {}]

DescriptorKeys(d) == {index(x.node) : x \in d}

\* dict[descriptor.node.index] = descriptor
put(d, descriptor) ==
    {x \in d : index(x.node) # index(descriptor.node)} \cup {descriptor}

\* StepDescriptor.record_expansion_result
RECURSIVE record_expansion_result(_, _)
record_expansion_result(step, gain_descriptors) ==
    IF gain_descriptors = <<>> THEN step
    ELSE LET descriptor == Head(gain_descriptors)
         IN record_expansion_result(
                IF descriptor.result
                THEN [step EXCEPT !.added = put(@, descriptor)]
                ELSE [step EXCEPT !.not_added = put(@, descriptor)],
                Tail(gain_descriptors))

\* StepDescriptor.record_reduction_result
RECURSIVE record_reduction_result(_, _)
record_reduction_result(step, gain_descriptors) ==
    IF gain_descriptors = <<>> THEN step
    ELSE LET descriptor == Head(gain_descriptors)
         IN record_reduction_result(
                IF descriptor.result
                THEN [step EXCEPT !.removed = put(@, descriptor)]
                ELSE [step EXCEPT !.not_removed = put(@, descriptor)],
                Tail(gain_descriptors))

\* StepDescriptor.added_nodes, in ascending index order
added_nodes(step) ==
    LET idx == Ascending(DescriptorKeys(step.added))
    IN [k \in 1 .. Len(idx) |->
            (CHOOSE x \in step.added : index(x.node) = idx[k]).node]

\* StepDescriptor.removed_nodes, in ascending index order
removed_nodes(step) ==
    LET idx == Ascending(DescriptorKeys(step.removed))
    IN [k \in 1 .. Len(idx) |->
            (CHOOSE x \in step.removed : index(x.node) = idx[k]).node]

\* is_deadlock without the comparison of the two sizes.
is_deadlock_without_size_check(step) ==
    \A key \in DescriptorKeys(step.added) : key \in DescriptorKeys(step.removed)

\* StepDescriptor.is_deadlock
is_deadlock(step) ==
    IF Cardinality(step.added) # Cardinality(step.removed) THEN FALSE
    ELSE \A key \in DescriptorKeys(step.added) : key \in DescriptorKeys(step.removed)

\* is_equivalent_to without the comparison of the sizes of the not-added and the
\* not-removed dicts.
is_equivalent_to_ignoring_rest(self, other) ==
    IF \/ Cardinality(self.added) # Cardinality(other.added)
       \/ Cardinality(self.removed) # Cardinality(other.removed)
    THEN FALSE
    ELSE /\ \A key \in DescriptorKeys(self.added) : key \in DescriptorKeys(other.added)
         /\ \A key \in DescriptorKeys(self.removed) :
                key \in DescriptorKeys(other.removed)

\* StepDescriptor.is_equivalent_to, for other # None
is_equivalent_to(self, other) ==
    IF \/ Cardinality(self.added) # Cardinality(other.added)
       \/ Cardinality(self.removed) # Cardinality(other.removed)
       \/ Cardinality(self.not_added) # Cardinality(other.not_added)
       \/ Cardinality(self.not_removed) # Cardinality(other.not_removed)
    THEN FALSE
    ELSE /\ \A key \in DescriptorKeys(self.added) : key \in DescriptorKeys(other.added)
         /\ \A key \in DescriptorKeys(self.removed) :
                key \in DescriptorKeys(other.removed)

\* The default of find_loop's max_sequence_length.
DefaultMaxSequenceLength == 2

\* find_loop comparing the last step with every earlier step of the history.
find_loop_over_whole_history(h, max_sequence_length) ==
    IF Len(h) = 0 THEN <<>>
    ELSE LET last_descriptor == h[Len(h)]
             hits == {i \in 0 .. (Len(h) - 2) :
                         is_equivalent_to(last_descriptor, h[i + 1])}
         IN IF is_deadlock(last_descriptor) THEN <<last_descriptor>>
            ELSE IF hits = {} THEN <<>>
            ELSE LET i == CHOOSE x \in hits : \A y \in hits : x <= y
                 IN SubSeq(h, i + 1, Len(h))

\* StepHistory.find_loop: the list of step descriptors of the loop; <<>> stands for
\* None (a loop the code returns is never empty).
find_loop(h, max_sequence_length) ==
    IF Len(h) = 0 THEN <<>>
    ELSE LET last_descriptor == h[Len(h)]
             first == IF Len(h) - 1 - max_sequence_length > 0
                      THEN Len(h) - 1 - max_sequence_length ELSE 0
             \* the 0-based indices of range(first, length - 1) whose step matches
             hits == {i \in first .. (Len(h) - 2) :
                         is_equivalent_to(last_descriptor, h[i + 1])}
         IN IF is_deadlock(last_descriptor) THEN <<last_descriptor>>
            ELSE IF hits = {} THEN <<>>
            ELSE LET i == CHOOSE x \in hits : \A y \in hits : x <= y
                 IN SubSeq(h, i + 1, Len(h))

----------------------------------------------------------------------------
(* Rank providers (ranking.py).  A rank is a number <<numerator,           *)
(* denominator>>; a call returns a record with the exception it raised     *)
(* ("none" if it returned) and the rank.                                   *)

\* The step_history reference of a StepHistoryRankProvider: None, or a StepHistory
\* object with its list of steps.
NoHistory == [none |-> TRUE, steps |-> <<>>]

HistoryOf(h) == [none |-> FALSE, steps |-> h]

\* StepHistory.last_step: self._history[-1], which raises IndexError on an empty list.
last_step(h) ==
    IF Len(h) = 0 THEN [err |-> "IndexError", step |-> StepDescriptor]
    ELSE [err |-> "none", step |-> h[Len(h)]]

\* StepDescriptor.get_gain_descriptor_for_node for node # None: the descriptor found
\* first in the not-removed, not-added, added and removed dicts, as a set that is
\* empty when the method returns None.
get_gain_descriptor_for_node(step, node) ==
    LET In(d) == {x \in d : index(x.node) = index(node)}
    IN IF In(step.not_removed) # {} THEN In(step.not_removed)
       ELSE IF In(step.not_added) # {} THEN In(step.not_added)
       ELSE IF In(step.added) # {} THEN In(step.added)
       ELSE In(step.removed)

\* StepHistoryRankProvider.get_node_rank.  last_step never returns None: it returns
\* a step or raises, so the return of -2 is never reached.  The descriptors of a
\* step are GainDescriptor objects, a class without get_rank (the objects of the
\* class that has it cannot be constructed).
get_node_rank(step_history, node) ==
    IF step_history.none \/ node = None THEN [err |-> "none", rank |-> <<-3, 1>>]
    ELSE LET step_descriptor == last_step(step_history.steps)
         IN IF step_descriptor.err # "none"
            THEN [err |-> step_descriptor.err, rank |-> Zero]
            ELSE IF get_gain_descriptor_for_node(step_descriptor.step, node) = {}
            THEN [err |-> "none", rank |-> <<-1, 1>>]
            ELSE [err |-> "AttributeError", rank |-> Zero]

\* The nodes handed to the rank providers' sort.
RankNodes == {NodeOf(0), NodeOf(1), NodeOf(2)}

\* Node.name: the names of the nodes 0, 1 and 2 are "b", "a" and "c".  Python
\* orders one-letter strings by the code point of the letter, and the model keeps
\* that code point as a number.
name(node) ==
    IF index(node) = 0 THEN <<98, 1>> ELSE IF index(node) = 1 THEN <<97, 1>> ELSE <<99, 1>>

\* attrgetter("name"), as the table of the keys it returns
NameKey == [node \in RankNodes |-> name(node)]

\* sorted(seq, key=..., reverse=...) and list.sort(key=..., reverse=...): Python's
\* sort is stable, items with equal keys keep the order they had, in both
\* directions.  This is the sort by insertion: every item, in list order, goes
\* behind all the sorted items it does not have to precede.
RECURSIVE sorted(_, _, _)
sorted(seq, key, reverse) ==
    IF seq = <<>> THEN <<>>
    ELSE LET rest == sorted(SubSeq(seq, 1, Len(seq) - 1), key, reverse)
             x == seq[Len(seq)]
             Precedes(a, b) == IF reverse THEN RLess(key[b], key[a])
                               ELSE RLess(key[a], key[b])
             n == Cardinality({k \in 1 .. Len(rest) : ~Precedes(x, rest[k])})
         IN SubSeq(rest, 1, n) \o <<x>> \o SubSeq(rest, n + 1, Len(rest))

\* sort_nodes_by_rank without the sort by name.
sort_nodes_by_rank_without_names(get_node_rank_of, nodes, reverse) ==
    IF nodes.none \/ Len(nodes.items) = 0 THEN [nodes |-> nodes, value |-> nodes]
    ELSE [nodes |-> nodes,
          value |-> ListOf(sorted(nodes.items, get_node_rank_of, reverse))]

\* BaseRankProvider.sort_nodes_by_rank of a provider whose get_node_rank returns
\* get_node_rank_of[node]: the list the caller passed, as it is after the call, and
\* the returned list.  sorted() builds a new list and list.sort sorts that one.
sort_nodes_by_rank(get_node_rank_of, nodes, reverse) ==
    IF nodes.none \/ Len(nodes.items) = 0 THEN [nodes |-> nodes, value |-> nodes]
    ELSE [nodes |-> nodes,
          value |-> ListOf(sorted(sorted(nodes.items, NameKey, FALSE),
                                  get_node_rank_of, reverse))]

----------------------------------------------------------------------------
(* LocalClusterEngine (localengine.py).                                    *)

\* LocalClusterEngine.create_cluster
create_cluster(e, g, source_nodes) ==
    IF ~source_nodes.none /\ Len(source_nodes.items) > 0
    THEN (IF e.source_nodes_in_result
          THEN add_source_nodes(g, Call(EmptyCluster), source_nodes)
          ELSE add_nodes(g, Call(EmptyCluster), source_nodes))
    ELSE Call(EmptyCluster)

\* [definition.gain_of_inclusion(node, cluster) for node in cluster.neighborhood]
InclusionGains(d, g, c) ==
    LET idx == Ascending(Keys(c.neighbors))
    IN [k \in 1 .. Len(idx) |-> gain_of_inclusion(d, g, c, get(c.neighbors, idx[k]))]

\* [definition.gain_of_exclusion(node, cluster) for node in cluster.nodes]
ExclusionGains(d, g, c) ==
    LET idx == Ascending(Keys(c.nodes))
    IN [k \in 1 .. Len(idx) |-> gain_of_exclusion(d, g, c, get(c.nodes, idx[k]))]

\* The exception a list comprehension of gain calls ends with, "none" if none.
GainsErr(gains) ==
    IF \E k \in 1 .. Len(gains) : gains[k].err # "none" THEN "TypeError" ELSE "none"

\* LocalClusterEngine._expand_cluster on the last step of the history h: the cluster
\* record (err set when the call raised) and the history after the call.
_expand_cluster(d, g, c, h) ==
    LET result == InclusionGains(d, g, c)
        step == record_expansion_result(h[Len(h)], result)
    IN IF GainsErr(result) # "none"
       THEN [cluster |-> Raise(c, GainsErr(result)), history |-> h]
       ELSE [cluster |-> add_nodes(g, c, ListOf(added_nodes(step))),
             history |-> [h EXCEPT ![Len(h)] = step]]

\* LocalClusterEngine._reduce_cluster on the last step of the history h.
_reduce_cluster(d, g, c, h) ==
    LET result == ExclusionGains(d, g, c)
        step == record_reduction_result(h[Len(h)], result)
    IN IF GainsErr(result) # "none"
       THEN [cluster |-> Raise(c, GainsErr(result)), history |-> h]
       ELSE [cluster |-> remove_nodes(g, c, ListOf(removed_nodes(step))),
             history |-> [h EXCEPT ![Len(h)] = step]]

\* The break condition with a cluster of exactly max_cluster_size nodes going on.
LoopEndsAboveMaximumOnly(e, c, h) ==
    e.max_cluster_size < Cardinality(c.nodes)
    \/ find_loop(h, DefaultMaxSequenceLength) # <<>>

\* The break condition of the loop of execute_on.
LoopEnds(e, c, h) ==
    e.max_cluster_size <= Cardinality(c.nodes)
    \/ find_loop(h, DefaultMaxSequenceLength) # <<>>

----------------------------------------------------------------------------
(* The state machine of one LocalClusterEngine.cluster(source_nodes) call  *)
(* on a graph that does not change.  pc is "idle" before the call,         *)
(* "expand" and "reduce" inside the loop of execute_on, "returned" after   *)
(* the return and "raised" after an exception left the call.               *)

EngineIndices == 0 .. 5

EngineNodes == {NodeOf(i) : i \in EngineIndices}

Triangle == {{0, 1}, {1, 2}, {0, 2}}

\* The triangles {0,1,2} and {3,4,5} joined by the edge 2-3.
TwoTriangles == Triangle \cup {{3, 4}, {4, 5}, {3, 5}} \cup {{2, 3}}

EngineGraphs == {TwoTriangles, Triangle}

\* Longest list of source nodes handed to cluster().
MaxSeeds == 2

SeedArgs == {NoneList} \cup {ListOf(q) : q \in SeqsUpTo(EngineNodes, MaxSeeds)}

InitEngine ==
    /\ graph \in EngineGraphs
    /\ cluster = EmptyCluster
    /\ last = NoCall
    /\ promoted = {}
    /\ definition \in [weighting_coefficient : {<<2, 1>>, <<1, 1>>},
                       threshold_modifier : {<<17, 20>>, <<1, 1>>}]
    /\ engine \in [source_nodes_in_result : BOOLEAN, max_cluster_size : {3, 7, 100}]
    /\ history = <<>>
    /\ pc = "idle"
    /\ hierarchical = DefaultHierarchical
    /\ returned = NoReturn

\* LocalClusterEngine.cluster up to the loop of execute_on: create_cluster,
\* create_step_history and the early return for an empty cluster.
EngineCluster(source_nodes) ==
    /\ pc = "idle"
    /\ LET r == create_cluster(engine, graph, source_nodes)
       IN /\ cluster' = StateOf(r)
          /\ last' = [op |-> "cluster", none |-> source_nodes.none,
                      items |-> source_nodes.items, err |-> r.err,
                      again |-> FALSE, changed |-> StateOf(r) # cluster,
                      left |-> {}]
          /\ pc' = IF r.err # "none" THEN "raised"
                   ELSE IF Cardinality(r.nodes) = 0 THEN "returned"
                   ELSE "expand"
    /\ history' = <<>>
    /\ UNCHANGED <<graph, promoted, definition, engine, hierarchical, returned>>

\* step_descriptor = self._step_history.step(); self._expand_cluster(step_descriptor)
ExpandCluster ==
    /\ pc = "expand"
    /\ LET r == _expand_cluster(definition, graph, Call(cluster),
                                Append(history, StepDescriptor))
       IN /\ cluster' = StateOf(r.cluster)
          /\ history' = r.history
          /\ pc' = IF r.cluster.err # "none" THEN "raised" ELSE "reduce"
    /\ UNCHANGED <<graph, last, promoted, definition, engine, hierarchical, returned>>

\* self._reduce_cluster(step_descriptor) and the break condition of the loop
ReduceCluster ==
    /\ pc = "reduce"
    /\ LET r == _reduce_cluster(definition, graph, Call(cluster), history)
       IN /\ cluster' = StateOf(r.cluster)
          /\ history' = r.history
          /\ pc' = IF r.cluster.err # "none" THEN "raised"
                   ELSE IF LoopEnds(engine, r.cluster, r.history) THEN "returned"
                   ELSE "expand"
    /\ UNCHANGED <<graph, last, promoted, definition, engine, hierarchical, returned>>

NextEngine ==
    \/ \E source_nodes \in SeedArgs : EngineCluster(source_nodes)
    \/ ExpandCluster
    \/ ReduceCluster

SpecEngine == InitEngine /\ [][NextEngine]_vars

----------------------------------------------------------------------------
(* Properties of the cluster operations.                                   *)

\* The nodes outside the cluster with an edge to a node of the cluster.
AdjacentNonMembers(g, c) ==
    {NodeOf(j) : j \in {k \in Indices : /\ k \notin Keys(c.nodes)
                                        /\ \E m \in c.nodes : {index(m), k} \in g}}

\* C1: after every cluster operation and every neighbor-added notification no node is
\* both in the neighborhood and in the cluster, and every source node is in the cluster.
C1_DisjointAndSourcesInside ==
    /\ Keys(cluster.neighbors) \cap Keys(cluster.nodes) = {}
    /\ cluster.neighbors \cap cluster.nodes = {}
    /\ cluster.source_nodes \subseteq cluster.nodes

\* A plain member was removed next to a remaining source node and is now a neighbor.
C1_Witness ==
    /\ last.op = "remove_node"
    /\ last.changed
    /\ cluster.source_nodes # {}
    /\ last.items[1] \in cluster.neighbors

\* C2: after every operation and notification the neighborhood is exactly the set of
\* nodes outside the cluster that are adjacent to a node of the cluster.
C2_NeighborhoodExact == cluster.neighbors = AdjacentNonMembers(graph, cluster)

\* A new edge from a member revealed a node whose only link to the cluster is that
\* edge, and the node is in the neighborhood.
C2_Witness ==
    /\ last.op = "add_edge"
    /\ last.items[1] \in cluster.nodes
    /\ last.items[2] \in cluster.neighbors
    /\ {m \in cluster.nodes : {index(m), index(last.items[2])} \in graph}
           = {last.items[1]}

\* C3: the degree field of the cluster equals the sum of the current degrees of its
\* nodes, also after edges were added at nodes of the cluster.
C3_DegreeIsSum == cluster.degree = SumDegrees(graph, cluster.nodes)

\* An edge was added between two nodes of the cluster.
C3_Witness ==
    /\ last.op = "add_edge"
    /\ last.items[1] \in cluster.nodes
    /\ last.items[2] \in cluster.nodes

\* C4: validate() returns an empty list, and does not raise, on every cluster reached
\* by the add and remove operations.
C4_ValidateEmpty ==
    validate(graph, Call(cluster)) = [problems |-> {}, err |-> "none"]

\* A source node was removed from a cluster that keeps nodes and neighbors.
C4_Witness ==
    /\ last.op = "remove_source_node"
    /\ last.changed
    /\ cluster.nodes # {}
    /\ cluster.neighbors # {}
    /\ cluster.degree > 1

\* C5: add_node(n) or add_source_node(n) called again right after the same call leaves
\* the cluster exactly as the first call left it.
C5_AddIsIdempotent ==
    [][(last'.again /\ last'.op \in {"add_node", "add_source_node"})
          => cluster' = cluster]_vars

\* add_source_node was repeated on a source node that has edges.
C5_Witness ==
    /\ last.again
    /\ last.op = "add_source_node"
    /\ last.err = "none"
    /\ last.items[1] \in cluster.source_nodes
    /\ degree(graph, last.items[1]) > 0

\* C6: remove_node on a source node changes nothing, remove_nodes changes nothing when
\* its list holds source nodes only and never takes a source node out, and a source
\* node leaves the source nodes only through remove_source_node(s).
C6_SourceNodesProtected ==
    [][/\ (last'.op = "remove_node" /\ last'.items[1] \in cluster.source_nodes)
              => cluster' = cluster
       /\ last'.op = "remove_nodes"
              => /\ cluster.source_nodes = cluster'.source_nodes
                 /\ cluster.source_nodes \subseteq cluster'.nodes
       /\ \A q \in SeqsUpTo(cluster.source_nodes, MaxBatch) :
              remove_nodes(graph, Call(cluster), ListOf(q)) = Call(cluster)
       /\ ~(cluster.source_nodes \subseteq cluster'.source_nodes)
              => last'.op \in {"remove_source_node", "remove_source_nodes"}]_vars

\* remove_node was called on a source node that had been a plain member before
\* add_source_node marked it.
C6_Witness ==
    /\ last.op = "remove_node"
    /\ last.items[1] \in promoted
    /\ last.items[1] \in cluster.source_nodes

\* C7: remove_source_node(n) takes a source node out of the source nodes and out of
\* the cluster, and changes nothing when n is a plain member or not in the cluster.
C7_RemoveSourceNode ==
    [][last'.op = "remove_source_node"
          => IF last'.items[1] \in cluster.source_nodes
             THEN /\ last'.items[1] \notin cluster'.source_nodes
                  /\ last'.items[1] \notin cluster'.nodes
                  /\ cluster'.source_nodes = cluster.source_nodes \ {last'.items[1]}
                  /\ cluster'.nodes = cluster.nodes \ {last'.items[1]}
             ELSE cluster' = cluster]_vars

\* A source node was removed and is now a neighbor of what remains.
C7_Witness ==
    /\ last.op = "remove_source_node"
    /\ last.changed
    /\ last.items[1] \in cluster.neighbors
    /\ cluster.nodes # {}

\* C8: an add_node or add_source_node call that raises for an identity conflict leaves
\* source nodes, nodes, neighborhood, degree and handler registrations unchanged.
C8_ConflictLeavesClusterUnchanged ==
    (last.op \in {"add_node", "add_source_node"} /\ last.err = "ValueError")
        => ~last.changed

\* C9: a batch operation called with None instead of a list returns normally and
\* leaves the cluster unchanged.
C9_NoneListIsNoOp == last.none => (last.err = "none" /\ ~last.changed)

----------------------------------------------------------------------------
(* Properties of the local cluster engine.                                 *)

\* The run of the two-triangle scenario: coefficient 2, modifier 0.85, node 0 the only
\* source node, a size cap above 6.
TwoTriangleRun ==
    /\ graph = TwoTriangles
    /\ definition = [weighting_coefficient |-> <<2, 1>>,
                     threshold_modifier |-> <<17, 20>>]
    /\ engine.source_nodes_in_result
    /\ engine.max_cluster_size > 6
    /\ last.op = "cluster"
    /\ ~last.none
    /\ last.items = <<NodeOf(0)>>

\* C10: the run of the two-triangle scenario returns, it never has node 3 in the
\* cluster, and it returns with exactly the nodes 0, 1 and 2 in the cluster.
C10_TwoTrianglesConverge ==
    TwoTriangleRun
        => /\ pc # "raised"
           /\ NodeOf(3) \notin cluster.nodes
           /\ \A k \in 1 .. Len(history) :
                  3 \notin DescriptorKeys(history[k].added)
           /\ pc = "returned" => cluster.nodes = {NodeOf(0), NodeOf(1), NodeOf(2)}

\* The run has left execute_on, by a return or by an exception.
RunStopped == pc \in {"returned", "raised"}

\* The steps find_loop compares the last step of h with: those in the window of
\* DefaultMaxSequenceLength steps before it.
WindowBeforeLast(h) ==
    {k \in 1 .. Len(h) - 1 : k >= Len(h) - DefaultMaxSequenceLength}

\* C11: the run of the two-triangle scenario stops by returning, and when it has
\* stopped the last recorded step is a deadlock (its added set equals its removed
\* set), the cluster is smaller than the size cap and the last step matches no
\* earlier step of the window.
C11_StopsByDeadlock ==
    (TwoTriangleRun /\ RunStopped)
        => /\ pc = "returned"
           /\ Len(history) > 0
           /\ is_deadlock(history[Len(history)])
           /\ DescriptorKeys(history[Len(history)].added)
                  = DescriptorKeys(history[Len(history)].removed)
           /\ Cardinality(cluster.nodes) < engine.max_cluster_size
           /\ \A k \in WindowBeforeLast(history) :
                  ~is_equivalent_to(history[Len(history)], history[k])

\* A step of the loop of execute_on, told by the position alone.
LoopStep ==
    /\ pc \in {"expand", "reduce"}
    /\ pc' \in {"expand", "reduce", "returned", "raised"}

\* The engine is a sequential program: inside the loop of execute_on the next
\* statement is always executed, until the call returns or raises.
SpecEngineLive == InitEngine /\ [][NextEngine]_vars /\ WF_pc(LoopStep)

\* C12: a run that has entered the loop of execute_on (a non-empty cluster, whatever
\* the graph, the seeds, the definition and the size cap) eventually returns.
C12_RunReturns == (pc = "expand") ~> (pc = "returned")

\* C13: in the loop of execute_on an expansion is always followed by the reduction
\* of the same iteration (the run never stops between the two), and after the
\* reduction the run stops, by returning, if and only if the member count is at
\* least max_cluster_size or find_loop reports a loop; otherwise it goes on with the
\* next expansion.
C13_StopsIffLoopEnds ==
    [][/\ pc = "expand" => pc' = "reduce"
       /\ pc = "reduce" =>
              /\ pc' \in {"returned", "expand"}
              /\ pc' = "returned" <=> LoopEnds(engine, cluster', history')]_vars

\* The seeds of the run: the source_nodes list handed to cluster().
Seeds == IF last.op = "cluster" /\ ~last.none THEN Range(last.items) ELSE {}

\* C14: with source_nodes_in_result every seed is a source node and a member at every
\* point of the run and after it.  Without it no seed is a source node, and when the
\* run has stopped a seed whose exclusion decision is true in every cluster (a seed
\* with no neighbor at all: its quality difference is 0) is no longer a member.
C14_SeedsKeptOrRemoved ==
    /\ engine.source_nodes_in_result
          => (Seeds \subseteq cluster.source_nodes /\ Seeds \subseteq cluster.nodes)
    /\ ~engine.source_nodes_in_result
          => /\ cluster.source_nodes = {}
             /\ RunStopped =>
                    \A seed \in Seeds : degree(graph, seed) = 0 => seed \notin cluster.nodes

\* The orders in which a dict holding the keys S can enumerate them.
Orders(S) == {q \in SeqsUpTo(S, Cardinality(S)) : Range(q) = S}

\* LocalClusterEngine._expand_cluster when cluster.neighborhood enumerates the boundary
\* in the order idx; added_nodes then enumerates the added nodes in the order of
\* their insertion, which is that of idx.
ExpandIn(d, g, c, h, idx) ==
    LET result == [k \in 1 .. Len(idx) |->
                      gain_of_inclusion(d, g, c, get(c.neighbors, idx[k]))]
        step == record_expansion_result(h[Len(h)], result)
        IsAdded(i) == i \in DescriptorKeys(step.added)
        added == SelectSeq(idx, IsAdded)
    IN IF GainsErr(result) # "none"
       THEN [cluster |-> Raise(c, GainsErr(result)), history |-> h]
       ELSE [cluster |-> add_nodes(g, c, ListOf([k \in 1 .. Len(added) |->
                                                   get(c.neighbors, added[k])])),
             history |-> [h EXCEPT ![Len(h)] = step]]

\* LocalClusterEngine._reduce_cluster when cluster.nodes enumerates the members in
\* the order idx.
ReduceIn(d, g, c, h, idx) ==
    LET result == [k \in 1 .. Len(idx) |->
                      gain_of_exclusion(d, g, c, get(c.nodes, idx[k]))]
        step == record_reduction_result(h[Len(h)], result)
        IsRemoved(i) == i \in DescriptorKeys(step.removed)
        removed == SelectSeq(idx, IsRemoved)
    IN IF GainsErr(result) # "none"
       THEN [cluster |-> Raise(c, GainsErr(result)), history |-> h]
       ELSE [cluster |-> remove_nodes(g, c, ListOf([k \in 1 .. Len(removed) |->
                                                      get(c.nodes, removed[k])])),
             history |-> [h EXCEPT ![Len(h)] = step]]

----------------------------------------------------------------------------
(* The state machine of a StepHistory used on its own, the way the engine   *)
(* uses it: step(), then record_expansion_result and record_reduction_result *)
(* on the new step descriptor, with any gain descriptors; find_loop and      *)
(* is_deadlock are called between the steps.  pc is "idle" between steps,    *)
(* "expand" after step() and "reduce" after record_expansion_result.         *)

\* The nodes the gain descriptors are about.
StepNodes == {NodeOf(0), NodeOf(1)}

\* The gain descriptors handed to the record calls, built by GainDescriptor.__init__.
StepGains ==
    {GainDescriptor(<<node, result, <<2, 1>>, Zero>>) :
        node \in StepNodes, result \in BOOLEAN}

GainLists == SeqsUpTo(StepGains, MaxGains)

InitHistory ==
    /\ graph = {}
    /\ cluster = EmptyCluster
    /\ last = NoCall
    /\ promoted = {}
    /\ EngineIdle

\* StepHistory.step
HistoryStep ==
    /\ pc = "idle"
    /\ Len(history) < MaxSteps
    /\ history' = Append(history, StepDescriptor)
    /\ pc' = "expand"
    /\ returned' = NoReturn
    /\ UNCHANGED <<graph, cluster, last, promoted, definition, engine, hierarchical>>

\* step_descriptor.record_expansion_result(gain_descriptors) on the last step
RecordExpansionResult(gain_descriptors) ==
    /\ pc = "expand"
    /\ history' = [history EXCEPT ![Len(history)] =
                       record_expansion_result(@, gain_descriptors)]
    /\ pc' = "reduce"
    /\ returned' = NoReturn
    /\ UNCHANGED <<graph, cluster, last, promoted, definition, engine, hierarchical>>

\* step_descriptor.record_reduction_result(gain_descriptors) on the last step
RecordReductionResult(gain_descriptors) ==
    /\ pc = "reduce"
    /\ history' = [history EXCEPT ![Len(history)] =
                       record_reduction_result(@, gain_descriptors)]
    /\ pc' = "idle"
    /\ returned' = NoReturn
    /\ UNCHANGED <<graph, cluster, last, promoted, definition, engine, hierarchical>>

\* step_history.find_loop()
FindLoop ==
    /\ pc = "idle"
    /\ returned' = [NoReturn EXCEPT !.op = "find_loop",
                                    !.value = find_loop(history, DefaultMaxSequenceLength)]
    /\ UNCHANGED <<graph, cluster, last, promoted, definition, engine, history, pc,
                   hierarchical>>

\* step_history.find_loop(max_sequence_length)
FindLoopWithin(max_sequence_length) ==
    /\ pc = "idle"
    /\ returned' = [NoReturn EXCEPT !.op = "find_loop(n)",
                                    !.args = <<max_sequence_length>>,
                                    !.value = find_loop(history, max_sequence_length)]
    /\ UNCHANGED <<graph, cluster, last, promoted, definition, engine, history, pc,
                   hierarchical>>

\* step_history.last_step.is_deadlock
IsDeadlock ==
    /\ pc = "idle"
    /\ Len(history) > 0
    /\ returned' = [NoReturn EXCEPT !.op = "is_deadlock",
                                    !.value = is_deadlock(history[Len(history)])]
    /\ UNCHANGED <<graph, cluster, last, promoted, definition, engine, history, pc,
                   hierarchical>>

\* StepHistoryRankProvider(step_history).get_node_rank(node)
GetNodeRank(step_history, node) ==
    /\ pc = "idle"
    /\ returned' = [NoReturn EXCEPT !.op = "get_node_rank",
                                    !.args = <<step_history.none, node>>,
                                    !.value = get_node_rank(step_history, node)]
    /\ UNCHANGED <<graph, cluster, last, promoted, definition, engine, history, pc,
                   hierarchical>>

NextHistory ==
    \/ HistoryStep
    \/ \E gain_descriptors \in GainLists : RecordExpansionResult(gain_descriptors)
    \/ \E gain_descriptors \in GainLists : RecordReductionResult(gain_descriptors)
    \/ FindLoop
    \/ \E max_sequence_length \in 0 .. MaxSteps : FindLoopWithin(max_sequence_length)
    \/ IsDeadlock
    \/ \E step_history \in {NoHistory, HistoryOf(history)}, node \in StepNodes \cup {None} :
           GetNodeRank(step_history, node)

SpecHistory == InitHistory /\ [][NextHistory]_vars

----------------------------------------------------------------------------
(* Properties of the step history.                                         *)

\* The added identities and the removed identities of step a are those of step b.
SameChanges(a, b) ==
    /\ DescriptorKeys(a.added) = DescriptorKeys(b.added)
    /\ DescriptorKeys(a.removed) = DescriptorKeys(b.removed)

\* C16 as stated: whenever the last step has the same added identities and the same
\* removed identities as a step of the lookback window before it, find_loop reports
\* a loop, whatever the not-added and not-removed dicts of the two steps hold.
C16_RepeatedChangesAreALoop ==
    returned.op = "find_loop"
        => ((\E k \in WindowBeforeLast(history) :
                 SameChanges(history[Len(history)], history[k]))
               => returned.value # <<>>)

\* C16 as amended: find_loop reports a loop exactly when the last step is a deadlock
\* or a step of the lookback window before it has the same added identities, the
\* same removed identities, as many not-added nodes and as many not-removed nodes
\* as the last step.
C16_LoopIffEquivalentStep ==
    (returned.op = "find_loop" /\ Len(history) > 0)
        => (returned.value # <<>>
              <=> \/ DescriptorKeys(history[Len(history)].added)
                        = DescriptorKeys(history[Len(history)].removed)
                  \/ \E k \in WindowBeforeLast(history) :
                         /\ SameChanges(history[Len(history)], history[k])
                         /\ Cardinality(history[Len(history)].not_added)
                               = Cardinality(history[k].not_added)
                         /\ Cardinality(history[Len(history)].not_removed)
                               = Cardinality(history[k].not_removed))

\* find_loop has reported a loop of more than one step for a last step that is no
\* deadlock, with a not-added or not-removed node in it.
C16_Witness ==
    /\ returned.op = "find_loop"
    /\ Len(returned.value) > 1
    /\ DescriptorKeys(history[Len(history)].added)
          # DescriptorKeys(history[Len(history)].removed)
    /\ history[Len(history)].not_removed # {}

\* C17: is_deadlock of a step is true if and only if the set of the identities in its
\* added dict equals the set of the identities in its removed dict.
C17_DeadlockIffSameSets ==
    returned.op = "is_deadlock"
        => (returned.value
              <=> DescriptorKeys(history[Len(history)].added)
                    = DescriptorKeys(history[Len(history)].removed))

\* is_deadlock has answered true for a step that added and removed the same single
\* node.
C17_Witness ==
    /\ returned.op = "is_deadlock"
    /\ returned.value
    /\ Cardinality(DescriptorKeys(history[Len(history)].added)) = 1
    /\ DescriptorKeys(history[Len(history)].added)
          = DescriptorKeys(history[Len(history)].removed)

----------------------------------------------------------------------------
(* The state machine of a ConnectivityClusterDefinition adjusted again and  *)
(* again with lists of gain descriptors.                                    *)

\* The coefficient multipliers of the gain descriptors handed to the adjustment:
\* 0, 1, 1.025, 1.05 and 2.
AdjustMultipliers == {Zero, One, <<41, 40>>, MinimumMultiplier, <<2, 1>>}

AdjustGains ==
    {GainDescriptor(<<NodeOf(0), FALSE, <<2, 1>>, multiplier>>) :
        multiplier \in AdjustMultipliers}

AdjustArgs == {NoneList} \cup {ListOf(q) : q \in SeqsUpTo(AdjustGains, MaxDescriptors)}

InitAdjust ==
    /\ graph = {}
    /\ cluster = EmptyCluster
    /\ last = NoCall
    /\ promoted = {}
    /\ definition \in [weighting_coefficient : {<<2, 1>>, One},
                       threshold_modifier : {<<17, 20>>, One}]
    /\ engine = DefaultEngine
    /\ history = <<>>
    /\ pc = "idle"
    /\ hierarchical = DefaultHierarchical
    /\ returned = NoReturn

\* definition.adjust_definition_for_next_hierarchy_level(gain_descriptors)
Adjust(gain_descriptors) ==
    /\ returned.calls < MaxAdjustments
    /\ LET r == adjust_definition_for_next_hierarchy_level(definition, gain_descriptors)
       IN /\ definition' = r.definition
          /\ returned' = [op |-> "adjust", args |-> gain_descriptors, value |-> r.value,
                          calls |-> returned.calls + 1]
    /\ UNCHANGED <<graph, cluster, last, promoted, engine, history, pc, hierarchical>>

NextAdjust == \E gain_descriptors \in AdjustArgs : Adjust(gain_descriptors)

SpecAdjust == InitAdjust /\ [][NextAdjust]_vars

\* The coefficient multipliers above 1 among the descriptors of a list argument.
MultipliersAboveOne(gain_descriptors) ==
    {gain_descriptors.items[k].coefficient_multiplier :
        k \in {i \in 1 .. Len(gain_descriptors.items) :
                  RLess(One, gain_descriptors.items[i].coefficient_multiplier)}}

\* C18: an adjustment returns true if and only if a supplied descriptor has a
\* coefficient multiplier above 1; when it returns true the weighting coefficient is
\* multiplied by the larger of the smallest such multiplier and 1.05, when it returns
\* false (also for an empty or absent list) the weighting coefficient is unchanged;
\* the weighting coefficient never decreases and the threshold modifier never
\* changes.
C18_AdjustRaisesCoefficient ==
    [][returned'.op = "adjust" =>
          LET above == MultipliersAboveOne(returned'.args)
              smallest == CHOOSE x \in above : \A y \in above : ~RLess(y, x)
          IN /\ returned'.value <=> above # {}
             /\ returned'.value =>
                    definition'.weighting_coefficient =
                        RMul(definition.weighting_coefficient,
                             IF RLess(smallest, MinimumMultiplier)
                             THEN MinimumMultiplier ELSE smallest)
             /\ ~returned'.value =>
                    definition'.weighting_coefficient = definition.weighting_coefficient
             /\ ~RLess(definition'.weighting_coefficient, definition.weighting_coefficient)
             /\ definition'.threshold_modifier = definition.threshold_modifier]_vars

\* An adjustment has returned true for two descriptors whose smallest multiplier above
\* 1 is 1.025, below the floor of 1.05.
C18_Witness ==
    /\ returned.op = "adjust"
    /\ returned.value
    /\ Len(returned.args.items) = 2
    /\ MultipliersAboveOne(returned.args) = {<<41, 40>>, <<2, 1>>}

----------------------------------------------------------------------------
(* HierarchicalClusterEngine (hierarchicalengine.py): the state machine of  *)
(* one cluster(source_nodes) call on a graph that does not change.          *)
(* hierarchical.cluster_definition is the definition object the caller      *)
(* assigned to the engine, definition the one the wrapped                   *)
(* LocalClusterEngine uses, engine the wrapped engine's fields.  pc is      *)
(* "expand" and "reduce" inside a pass of the wrapped engine.               *)

\* The gain descriptors of a dict of a step descriptor, in ascending index order.
DescriptorsOf(d) ==
    LET idx == Ascending(DescriptorKeys(d))
    IN [k \in 1 .. Len(idx) |-> CHOOSE x \in d : index(x.node) = idx[k]]

\* The list execute_on hands to the adjustment: the removed, then the not-added
\* gain descriptors of the last step.
AdjustmentList(h) ==
    ListOf(DescriptorsOf(h[Len(h)].removed) \o DescriptorsOf(h[Len(h)].not_added))

\* The loop condition with <= for <.
UpToMinimum(he, c) == Cardinality(c.nodes) <= he.min_cluster_size

\* The condition of the loop of execute_on: len(cluster) < self.min_cluster_size
BelowMinimum(he, c) == Cardinality(c.nodes) < he.min_cluster_size

InitHierarchical ==
    /\ graph \in EngineGraphs
    /\ cluster = EmptyCluster
    /\ last = NoCall
    /\ promoted = {}
    /\ definition = DefaultDefinition
    /\ engine = DefaultEngine
    /\ history = <<>>
    /\ pc = "idle"
    /\ hierarchical \in
          [cluster_definition : [weighting_coefficient : {<<2, 1>>, One},
                                 threshold_modifier : {<<17, 20>>, One}],
           min_cluster_size : {1, 2, 15}]
    /\ returned = NoReturn

\* HierarchicalClusterEngine.cluster up to the first pass: create_cluster,
\* create_step_history, the early return for an empty cluster, the clone and the
\* first test of the loop condition.
HierarchicalCluster(source_nodes) ==
    /\ pc = "idle"
    /\ LET r == create_cluster(engine, graph, source_nodes)
           cloned == clone(hierarchical.cluster_definition)
           started == r.err = "none" /\ Cardinality(r.nodes) # 0
       IN /\ cluster' = StateOf(r)
          /\ last' = [op |-> "cluster", none |-> source_nodes.none,
                      items |-> source_nodes.items, err |-> r.err,
                      again |-> FALSE, changed |-> StateOf(r) # cluster,
                      left |-> {}]
          /\ hierarchical' = IF started
                             THEN [hierarchical EXCEPT !.cluster_definition = cloned.self]
                             ELSE hierarchical
          /\ definition' = IF started THEN cloned.base ELSE definition
          /\ pc' = IF r.err # "none" THEN "raised"
                   ELSE IF Cardinality(r.nodes) = 0 THEN "returned"
                   ELSE IF BelowMinimum(hierarchical, r) THEN "expand"
                   ELSE "returned"
    /\ history' = <<>>
    /\ returned' = NoReturn
    /\ UNCHANGED <<graph, promoted, engine>>

\* The reduction of a pass and what follows it: the break condition of the wrapped
\* engine's loop and, when the pass has returned, the adjustment of the cloned
\* definition and the next test of the loop condition.
HierarchicalReduce ==
    /\ pc = "reduce"
    /\ LET r == _reduce_cluster(definition, graph, Call(cluster), history)
           passed == r.cluster.err = "none" /\ LoopEnds(engine, r.cluster, r.history)
           adjusted == adjust_definition_for_next_hierarchy_level(
                           definition, AdjustmentList(r.history))
       IN /\ cluster' = StateOf(r.cluster)
          /\ history' = r.history
          /\ definition' = IF passed THEN adjusted.definition ELSE definition
          /\ returned' = IF passed
                         THEN [op |-> "adjust", args |-> AdjustmentList(r.history),
                               value |-> adjusted.value, calls |-> returned.calls + 1]
                         ELSE returned
          /\ pc' = IF r.cluster.err # "none" THEN "raised"
                   ELSE IF ~passed THEN "expand"
                   ELSE IF ~adjusted.value THEN "returned"
                   ELSE IF BelowMinimum(hierarchical, r.cluster) THEN "expand"
                   ELSE "returned"
    /\ UNCHANGED <<graph, last, promoted, engine, hierarchical>>

NextHierarchical ==
    \/ \E source_nodes \in SeedArgs : HierarchicalCluster(source_nodes)
    \/ ExpandCluster
    \/ HierarchicalReduce

SpecHierarchical == InitHierarchical /\ [][NextHierarchical]_vars

----------------------------------------------------------------------------
(* Properties of the hierarchical cluster engine.                           *)

\* C19: no step of a HierarchicalClusterEngine run changes the weighting coefficient
\* or the threshold modifier of the definition object the caller assigned to the
\* engine.
C19_CallerDefinitionUntouched ==
    [][hierarchical'.cluster_definition = hierarchical.cluster_definition]_vars

\* A run on a definition other than the default one has cloned it and started a
\* pass of the wrapped engine, which uses the clone.
C19_Witness ==
    /\ last.op = "cluster"
    /\ pc \in {"expand", "reduce", "raised"}
    /\ last.err = "none"
    /\ hierarchical.cluster_definition.weighting_coefficient = One
    /\ hierarchical.cluster_definition.threshold_modifier = One
    /\ definition = hierarchical.cluster_definition

\* C20: when the run returns on a non-empty cluster, the cluster has at least
\* min_cluster_size members or the last adjustment returned false; the first pass
\* is started only with fewer than min_cluster_size members, and a cluster created
\* with at least min_cluster_size members is returned at once, with no step
\* recorded.
C20_ReturnsAtMinimumSize ==
    [][/\ (pc' = "returned" /\ cluster'.nodes # {})
             => \/ Cardinality(cluster'.nodes) >= hierarchical.min_cluster_size
                \/ (returned'.op = "adjust" /\ ~returned'.value)
       /\ (pc = "idle" /\ pc' = "expand")
             => Cardinality(cluster'.nodes) < hierarchical.min_cluster_size
       /\ (pc = "idle" /\ pc' # "raised" /\ cluster'.nodes # {}
               /\ Cardinality(cluster'.nodes) >= hierarchical.min_cluster_size)
             => (pc' = "returned" /\ history' = <<>>)]_vars

\* A run has returned a cluster of exactly min_cluster_size members without a pass.
C20_Witness ==
    /\ last.op = "cluster"
    /\ pc = "returned"
    /\ Cardinality(cluster.nodes) = 2
    /\ hierarchical.min_cluster_size = 2
    /\ history = <<>>

----------------------------------------------------------------------------
(* The state machine of a rank provider sorting lists of nodes.  The       *)
(* provider is a child class of BaseRankProvider whose get_node_rank       *)
(* returns the ranks of a table.                                           *)

\* Longest list handed to sort_nodes_by_rank.
MaxRanked == 3

\* The ranks a provider gives.
RankValues == {<<-1, 1>>, <<1, 2>>, <<9, 10>>}

RankTables == [RankNodes -> RankValues]

RankedLists == {NoneList} \cup {ListOf(q) : q \in SeqsUpTo(RankNodes, MaxRanked)}

InitRank == InitHistory

\* provider.sort_nodes_by_rank(nodes, reverse).  The call reads the provider and the
\* list and leaves nothing behind that a later call could see, so a behaviour holds
\* one call.
SortNodesByRank(get_node_rank_of, nodes, reverse) ==
    /\ pc = "idle"
    /\ returned.op = "none"
    /\ returned' = [NoReturn EXCEPT
                       !.op = "sort_nodes_by_rank",
                       !.args = <<get_node_rank_of, nodes, reverse>>,
                       !.value = sort_nodes_by_rank(get_node_rank_of, nodes, reverse)]
    /\ UNCHANGED <<graph, cluster, last, promoted, definition, engine, history, pc,
                   hierarchical>>

NextRank ==
    \E get_node_rank_of \in RankTables, nodes \in RankedLists, reverse \in BOOLEAN :
        SortNodesByRank(get_node_rank_of, nodes, reverse)

SpecRank == InitRank /\ [][NextRank]_vars

----------------------------------------------------------------------------
(* Properties of the rank providers.                                       *)

\* C21: get_node_rank of a node raises nothing and returns -3 when the provider has
\* no step history, -2 when the step history has no recorded step, and -1 when the
\* history has steps and no bucket of the last step holds a gain descriptor of the
\* node.
C21_RankCodes ==
    (returned.op = "get_node_rank" /\ returned.args[2] # None)
        => /\ returned.args[1]
                 => returned.value = [err |-> "none", rank |-> <<-3, 1>>]
           /\ (~returned.args[1] /\ Len(history) = 0)
                 => returned.value = [err |-> "none", rank |-> <<-2, 1>>]
           /\ (/\ ~returned.args[1]
               /\ Len(history) > 0
               /\ get_gain_descriptor_for_node(history[Len(history)],
                                               returned.args[2]) = {})
                 => returned.value = [err |-> "none", rank |-> <<-1, 1>>]

\* How often x occurs in the list seq.
Count(seq, x) == Cardinality({k \in 1 .. Len(seq) : seq[k] = x})

\* The ranks 0.5, 0.5 and 0.9 for the nodes named b, a and c.
ExampleRanks ==
    [node \in RankNodes |-> IF index(node) = 2 THEN <<9, 10>> ELSE <<1, 2>>]

\* C22: the list sort_nodes_by_rank returns for a list of nodes holds the nodes of
\* the input, each as often as the input does; its ranks never rise from one item to
\* the next when reverse is true (the default) and never fall when reverse is false;
\* two nodes of equal rank stand in ascending name order in both directions; the
\* list the caller passed is as it was; and the ranks 0.5, 0.5, 0.9 of the names
\* b, a, c sort to c, a, b.
C22_SortedByRankThenName ==
    (returned.op = "sort_nodes_by_rank" /\ ~returned.args[2].none)
        => LET rank == returned.args[1]
               nodes == returned.args[2]
               reverse == returned.args[3]
               result == returned.value.value.items
           IN /\ ~returned.value.value.none
              /\ \A x \in RankNodes : Count(result, x) = Count(nodes.items, x)
              /\ \A k, l \in 1 .. Len(result) :
                     k < l => /\ reverse => ~RLess(rank[result[k]], rank[result[l]])
                              /\ ~reverse => ~RLess(rank[result[l]], rank[result[k]])
                              /\ rank[result[k]] = rank[result[l]]
                                    => ~RLess(name(result[l]), name(result[k]))
              /\ returned.value.nodes = nodes
              /\ (/\ rank = ExampleRanks
                  /\ nodes.items = <<NodeOf(0), NodeOf(1), NodeOf(2)>>
                  /\ reverse)
                    => result = <<NodeOf(2), NodeOf(1), NodeOf(0)>>

\* The list b, a, c with the ranks 0.5, 0.5, 0.9 has been sorted in descending order,
\* to c, a, b.
C22_Witness ==
    /\ returned.op = "sort_nodes_by_rank"
    /\ returned.args = <<ExampleRanks, ListOf(<<NodeOf(0), NodeOf(1), NodeOf(2)>>), TRUE>>
    /\ returned.value.value.items = <<NodeOf(2), NodeOf(1), NodeOf(0)>>

\* C30: find_loop(window) returns None on an empty history; the list holding only the
\* last step when the last step is a deadlock; otherwise, when one of the window
\* steps right before the last step is equivalent to it, the part of the history
\* from the earliest such step to the last step; otherwise None.  A step more than
\* window positions before the last step is not compared.
C30_FindLoopWindow ==
    returned.op = "find_loop(n)"
        => LET window == returned.args[1]
               length == Len(history)
               matches == {k \in 1 .. length - 1 :
                              /\ k >= length - window
                              /\ is_equivalent_to(history[length], history[k])}
           IN IF length = 0 THEN returned.value = <<>>
              ELSE IF is_deadlock(history[length])
              THEN returned.value = <<history[length]>>
              ELSE IF matches # {}
              THEN /\ \E k \in matches :
                         /\ \A j \in matches : k <= j
                         /\ returned.value = SubSeq(history, k, length)
                   /\ Len(returned.value) <= window + 1
              ELSE returned.value = <<>>

\* find_loop(1) has returned None for a history of three steps whose last step is no
\* deadlock and is equivalent to the first step, two positions before it.
C30_Witness ==
    /\ returned.op = "find_loop(n)"
    /\ returned.args = <<1>>
    /\ Len(history) = 3
    /\ ~is_deadlock(history[3])
    /\ is_equivalent_to(history[3], history[1])
    /\ returned.value = <<>>

----------------------------------------------------------------------------
(* Properties of the connectivity cluster definition, stated on the gain   *)
(* evaluations of the engine's run.                                        *)

\* c * (number of the node's neighbors that are members of the cluster)
QualityOf(node) ==
    RMul(definition.weighting_coefficient,
         <<Cardinality(NeighborIndices(graph, node) \cap Keys(cluster.nodes)), 1>>)

\* m * min(max(|members| - 2, 0), degree(node), clusterDegree / |members|), for a
\* cluster with members
ThresholdOf(node) ==
    LET size == Cardinality(cluster.nodes)
    IN RMul(definition.threshold_modifier,
            RMin(RMin(<<IF size > 2 THEN size - 2 ELSE 0, 1>>, <<degree(graph, node), 1>>),
                 Rat(cluster.degree, size)))

\* C23: every gain_of_inclusion evaluation of an expansion (and that of any other
\* node against the same cluster) returns a descriptor: with quality 0 the decision
\* is false and the multiplier 0; otherwise the cluster has a member, the decision
\* is quality >= threshold and the multiplier is threshold / quality.
C23_InclusionGain ==
    [][pc = "expand" =>
          \A node \in EngineNodes :
              LET gain == gain_of_inclusion(definition, graph, Call(cluster), node)
              IN /\ gain.err = "none"
                 /\ gain.node = node
                 /\ QualityOf(node) = Zero
                       => (~gain.result /\ gain.coefficient_multiplier = Zero)
                 /\ QualityOf(node) # Zero
                       => /\ Cardinality(cluster.nodes) > 0
                          /\ gain.result <=> ~RLess(QualityOf(node), ThresholdOf(node))
                          /\ gain.coefficient_multiplier
                                = RDiv(ThresholdOf(node), QualityOf(node))]_vars

\* C24: every gain_of_exclusion evaluation of a reduction returns a descriptor: for a
\* member without a neighbor in the cluster the decision is true and the multiplier
\* 0; otherwise the decision is quality < threshold and the multiplier is
\* threshold / quality, both computed on the cluster that still holds the member.
C24_ExclusionGain ==
    [][pc = "reduce" =>
          \A node \in cluster.nodes :
              LET gain == gain_of_exclusion(definition, graph, Call(cluster), node)
              IN /\ gain.err = "none"
                 /\ gain.node = node
                 /\ QualityOf(node) = Zero
                       => (gain.result /\ gain.coefficient_multiplier = Zero)
                 /\ QualityOf(node) # Zero
                       => /\ gain.result <=> RLess(QualityOf(node), ThresholdOf(node))
                          /\ gain.coefficient_multiplier
                                = RDiv(ThresholdOf(node), QualityOf(node))]_vars

\* C25: for every node with a member among its neighbors, the inclusion decision and
\* the exclusion decision computed against the same cluster are both made and are
\* complementary, and when the quality equals the threshold the inclusion decision
\* is true and the exclusion decision false.
C25_DecisionsComplementary ==
    (pc \in {"expand", "reduce"})
        => \A node \in EngineNodes :
               QualityOf(node) # Zero
                   => LET inclusion == gain_of_inclusion(definition, graph, Call(cluster), node)
                          exclusion == gain_of_exclusion(definition, graph, Call(cluster), node)
                      IN /\ inclusion.err = "none"
                         /\ exclusion.err = "none"
                         /\ inclusion.result <=> ~exclusion.result
                         /\ QualityOf(node) = ThresholdOf(node)
                               => (inclusion.result /\ ~exclusion.result)

----------------------------------------------------------------------------
(* The state machine of one MultiStepLocalClusterEngine.cluster(source_nodes) *)
(* call whose cluster_definition is a ClusterDefinition of the caller (the    *)
(* engine takes any implementation of the interface of definitions/base.py).  *)
(* The caller's definition may decide anything for a node; the gain           *)
(* descriptor it returns is a GainDescriptor that notes, in its two numbers,  *)
(* the size and the degree of the cluster the definition was handed.          *)
(* returned holds the decisions of the last pass: the nodes the definition     *)
(* said yes to.                                                               *)
(* pc is <<position, i>>: "idle" before the call, "expand" or "reduce" before *)
(* pass i of the for loop of that kind, "check" before the break condition of *)
(* the while loop, "returned" or "raised" after the call.                     *)

\* Largest expansion_step_count and reduction_step_count.
MaxPhases == 3

\* The iterations of the while loop of execute_on whose passes are followed; of the
\* iteration after them only the start, its step(), is.
MaxIterations == 1
\* The same for an engine that makes at most one pass of each kind in an iteration.
MaxLocalIterations == 3

\* The number of iterations followed for the step counts of e.
IterationsFollowed(e) ==
    IF e.expansion_step_count <= 1 /\ e.reduction_step_count <= 1
    THEN MaxLocalIterations ELSE MaxIterations

MultiStepGraph == Triangle

MultiStepSeeds == {ListOf(q) : q \in SeqsUpTo({NodeOf(0), NodeOf(1)}, MaxSeeds)}

\* The gains when every evaluation is handed the cluster with the nodes accepted
\* earlier in the same pass already added.
CallerGainsSeeingEarlier(c, nodes, idx, decisions) ==
    [k \in 1 .. Len(idx) |->
        GainDescriptor(<<get(nodes, idx[k]), decisions[idx[k]],
                         <<Cardinality(c.nodes)
                             + Cardinality({j \in 1 .. k - 1 : decisions[idx[j]]}), 1>>,
                         <<c.degree, 1>>>>)]

\* [cluster_definition.gain_of_...(node, cluster) for node in nodes] with the caller's
\* definition: nodes is the dict that is enumerated, idx its keys in enumeration
\* order, decisions what the definition decides for each of them.
CallerGains(c, nodes, idx, decisions) ==
    [k \in 1 .. Len(idx) |->
        GainDescriptor(<<get(nodes, idx[k]), decisions[idx[k]],
                         <<Cardinality(c.nodes), 1>>, <<c.degree, 1>>>>)]

\* LocalClusterEngine._expand_cluster on the last step of h, with the caller's
\* definition.
ExpandWith(g, c, h, decisions) ==
    LET result == CallerGains(c, c.neighbors, Ascending(Keys(c.neighbors)), decisions)
        step == record_expansion_result(h[Len(h)], result)
    IN [cluster |-> add_nodes(g, c, ListOf(added_nodes(step))),
        history |-> [h EXCEPT ![Len(h)] = step]]

\* LocalClusterEngine._reduce_cluster on the last step of h, with the caller's
\* definition.
ReduceWith(g, c, h, decisions) ==
    LET result == CallerGains(c, c.nodes, Ascending(Keys(c.nodes)), decisions)
        step == record_reduction_result(h[Len(h)], result)
    IN [cluster |-> remove_nodes(g, c, ListOf(removed_nodes(step))),
        history |-> [h EXCEPT ![Len(h)] = step]]

\* An iteration that starts with its reduction passes.
FirstPhaseAfterExpansion(e) ==
    IF e.reduction_step_count > 0 THEN <<"reduce", 0>> ELSE <<"check", 0>>

\* Where an iteration of the while loop starts after step(): range(0) runs no pass.
FirstPhase(e) ==
    IF e.expansion_step_count > 0 THEN <<"expand", 0>>
    ELSE IF e.reduction_step_count > 0 THEN <<"reduce", 0>>
    ELSE <<"check", 0>>

InitMultiStep ==
    /\ graph = MultiStepGraph
    /\ cluster = EmptyCluster
    /\ last = NoCall
    /\ promoted = {}
    /\ definition = DefaultDefinition
    /\ engine \in [source_nodes_in_result : BOOLEAN, max_cluster_size : {3, 100},
                    expansion_step_count : 0 .. MaxPhases,
                    reduction_step_count : 0 .. MaxPhases]
    /\ history = <<>>
    /\ pc = <<"idle", 0>>
    /\ hierarchical = DefaultHierarchical
    /\ returned = NoReturn

\* MultiStepLocalClusterEngine.cluster up to the first pass: create_cluster,
\* create_step_history, the early return for an empty cluster and the first step().
MultiStepCluster(source_nodes) ==
    /\ pc = <<"idle", 0>>
    /\ LET r == create_cluster(engine, graph, source_nodes)
       IN /\ cluster' = StateOf(r)
          /\ last' = [op |-> "cluster", none |-> source_nodes.none,
                      items |-> source_nodes.items, err |-> r.err,
                      again |-> FALSE, changed |-> StateOf(r) # cluster,
                      left |-> {}]
          /\ pc' = IF r.err # "none" THEN <<"raised", 0>>
                   ELSE IF Cardinality(r.nodes) = 0 THEN <<"returned", 0>>
                   ELSE FirstPhase(engine)
          /\ history' = IF r.err = "none" /\ Cardinality(r.nodes) > 0
                        THEN <<StepDescriptor>> ELSE <<>>
    /\ UNCHANGED <<graph, promoted, definition, engine, hierarchical, returned>>

\* One pass of "for _ in range(self.expansion_step_count)": _expand_cluster and the
\* break when the step descriptor has no added node.
MultiStepExpand(decisions) ==
    /\ pc[1] = "expand"
    /\ Len(history) <= IterationsFollowed(engine)
    /\ LET r == ExpandWith(graph, Call(cluster), history, decisions)
       IN /\ cluster' = StateOf(r.cluster)
          /\ history' = r.history
          /\ pc' = IF r.cluster.err # "none" THEN <<"raised", 0>>
                   ELSE IF /\ Cardinality(r.history[Len(r.history)].added) # 0
                           /\ pc[2] + 1 < engine.expansion_step_count
                   THEN <<"expand", pc[2] + 1>>
                   ELSE IF engine.reduction_step_count > 0 THEN <<"reduce", 0>>
                   ELSE <<"check", 0>>
    /\ returned' = [NoReturn EXCEPT !.op = "gain_of_inclusion",
                                    !.value = {i \in DOMAIN decisions : decisions[i]}]
    /\ UNCHANGED <<graph, last, promoted, definition, engine, hierarchical>>

\* One pass of "for _ in range(self.reduction_step_count)": _reduce_cluster and the
\* break when the step descriptor has no removed node.
MultiStepReduce(decisions) ==
    /\ pc[1] = "reduce"
    /\ Len(history) <= IterationsFollowed(engine)
    /\ LET r == ReduceWith(graph, Call(cluster), history, decisions)
       IN /\ cluster' = StateOf(r.cluster)
          /\ history' = r.history
          /\ pc' = IF r.cluster.err # "none" THEN <<"raised", 0>>
                   ELSE IF /\ Cardinality(r.history[Len(r.history)].removed) # 0
                           /\ pc[2] + 1 < engine.reduction_step_count
                   THEN <<"reduce", pc[2] + 1>>
                   ELSE <<"check", 0>>
    /\ returned' = [NoReturn EXCEPT !.op = "gain_of_exclusion",
                                    !.value = {i \in DOMAIN decisions : decisions[i]}]
    /\ UNCHANGED <<graph, last, promoted, definition, engine, hierarchical>>

\* The break condition of the while loop, the return, and the step() of the next
\* iteration.
MultiStepCheck ==
    /\ pc[1] = "check"
    /\ IF \/ find_loop(history, DefaultMaxSequenceLength) # <<>>
          \/ engine.max_cluster_size <= Cardinality(cluster.nodes)
       THEN pc' = <<"returned", 0>> /\ history' = history
       ELSE /\ history' = Append(history, StepDescriptor)
            /\ pc' = FirstPhase(engine)
    /\ UNCHANGED <<graph, cluster, last, promoted, definition, engine, hierarchical,
                   returned>>

NextMultiStep ==
    \/ \E source_nodes \in MultiStepSeeds : MultiStepCluster(source_nodes)
    \/ \E decisions \in [Keys(cluster.neighbors) -> BOOLEAN] : MultiStepExpand(decisions)
    \/ \E decisions \in [Keys(cluster.nodes) -> BOOLEAN] : MultiStepReduce(decisions)
    \/ MultiStepCheck

SpecMultiStep == InitMultiStep /\ [][NextMultiStep]_vars

----------------------------------------------------------------------------
(* Properties of the passes of the engines.                                *)

\* The step descriptor the pass that ends in the next state has recorded into.
StepAfterPass == history'[Len(history')]

\* C26: after every expansion pass each node the pass evaluated (each boundary node)
\* is in exactly one of the added and the not-added bucket of the step descriptor,
\* and after every reduction pass each node it evaluated (each member) is in exactly
\* one of the removed and the not-removed bucket, whatever the two step counts.
C26_OneBucketPerPass ==
    [][/\ pc[1] = "expand" =>
              \A i \in Keys(cluster.neighbors) :
                  (i \in DescriptorKeys(StepAfterPass.added))
                      # (i \in DescriptorKeys(StepAfterPass.not_added))
       /\ pc[1] = "reduce" =>
              \A i \in Keys(cluster.nodes) :
                  (i \in DescriptorKeys(StepAfterPass.removed))
                      # (i \in DescriptorKeys(StepAfterPass.not_removed))]_vars

\* C27: an expansion pass that adds no node (the definition accepted none) is the
\* last expansion pass of its iteration, and a reduction pass that removes no node
\* (the definition excluded none) is the last reduction pass of its iteration.
C27_PassesStopAtFirstEmptyPass ==
    [][/\ (pc[1] = "expand" /\ returned'.value = {}) => pc'[1] # "expand"
       /\ (pc[1] = "reduce" /\ returned'.value = {}) => pc'[1] # "reduce"]_vars

\* C28: every gain descriptor an expansion pass records was computed against the
\* cluster of the start of the pass (it notes that cluster's size and degree), for
\* every node of the boundary of that cluster, and the members after the pass are
\* those before it plus the added nodes; every gain descriptor a reduction pass
\* records was computed against the cluster the pass started with, for every member
\* of it, and the members after the pass are those before it less the removed nodes
\* that are no source nodes.
C28_PassSeesStartOfPass ==
    [][/\ pc[1] = "expand" =>
              /\ \A i \in Keys(cluster.neighbors) :
                     \E x \in StepAfterPass.added \cup StepAfterPass.not_added :
                         /\ index(x.node) = i
                         /\ x.weighting_coefficient = <<Cardinality(cluster.nodes), 1>>
                         /\ x.coefficient_multiplier = <<cluster.degree, 1>>
              /\ Keys(cluster'.nodes)
                    = Keys(cluster.nodes) \cup DescriptorKeys(StepAfterPass.added)
       /\ pc[1] = "reduce" =>
              /\ \A i \in Keys(cluster.nodes) :
                     \E x \in StepAfterPass.removed \cup StepAfterPass.not_removed :
                         /\ index(x.node) = i
                         /\ x.weighting_coefficient = <<Cardinality(cluster.nodes), 1>>
                         /\ x.coefficient_multiplier = <<cluster.degree, 1>>
              /\ Keys(cluster'.nodes)
                    = Keys(cluster.nodes)
                        \ (DescriptorKeys(StepAfterPass.removed)
                              \ Keys(cluster.source_nodes))]_vars

\* The first expansion pass of a run from one seed has accepted both boundary nodes:
\* the cluster has three members and both descriptors note a cluster of one member.
C28_Witness ==
    /\ pc = <<"reduce", 0>>
    /\ Cardinality(cluster.nodes) = 3
    /\ Cardinality(history[Len(history)].added) = 2
    /\ \A x \in history[Len(history)].added : x.weighting_coefficient = <<1, 1>>

\* C29: when the reduction passes of a step are over, no node of the step's removed
\* bucket is a member of the cluster, and when its expansion passes are over every
\* node of its added bucket is a member, with and without source_nodes_in_result.
C29_BucketsMatchMembership ==
    [][/\ (pc[1] = "reduce" /\ pc'[1] = "check") =>
              \A i \in DescriptorKeys(StepAfterPass.removed) :
                  i \notin Keys(cluster'.nodes)
       /\ (pc[1] = "expand" /\ pc'[1] \in {"reduce", "check"}) =>
              \A i \in DescriptorKeys(StepAfterPass.added) :
                  i \in Keys(cluster'.nodes)]_vars

----------------------------------------------------------------------------
(* Properties of the cluster's event handling (Spec).                      *)

\* C31: the nodes the cluster's neighbor-added handler is registered on are the
\* members of the cluster in every state, and an added edge reaches the cluster only
\* through its ends that are members: the degree grows by one for each end that is a
\* member, the boundary gains exactly the ends that are not members but face a
\* member, and an edge neither of whose ends is a member (among them every node that
\* was removed from the cluster) changes nothing.
C31_HandlersOnMembersOnly ==
    /\ [](cluster.listeners = cluster.nodes)
    /\ [][last'.op = "add_edge" =>
              LET ends == {last'.items[1], last'.items[2]}
                  members == ends \cap cluster.nodes
              IN /\ last'.err = "none"
                 /\ cluster'.degree = cluster.degree + Cardinality(members)
                 /\ cluster'.neighbors
                        = cluster.neighbors
                            \cup (IF members = {} THEN {} ELSE ends \ members)
                 /\ cluster'.nodes = cluster.nodes
                 /\ cluster'.source_nodes = cluster.source_nodes
                 /\ cluster'.listeners = cluster.listeners]_vars

\* An edge was added between a node that the call before had removed from the
\* cluster and another node outside a cluster that still has members, and the
\* cluster stayed as it was.
C31_Witness ==
    /\ last.op = "add_edge"
    /\ last.items[1] \in last.left
    /\ last.items[2] \notin cluster.nodes
    /\ cluster.nodes # {}
    /\ ~last.changed

----------------------------------------------------------------------------
(* The state machine of one LocalClusterEngine.cluster(source_nodes) call  *)
(* whose cluster_definition is a ClusterDefinition of the caller, as in    *)
(* the state machine of the multi-step engine above: the definition may    *)
(* decide anything for a node, returned holds the decisions of the last    *)
(* pass, and pc is <<position, 0>> with the positions "idle", "expand",    *)
(* "reduce", "check" (before the break condition of the loop), "returned"  *)
(* and "raised".                                                           *)

\* The triangle 0-1-2 and the triangle with the node 3 hanging on node 2.
LocalGraphs == {Triangle, Triangle \cup {{2, 3}}}

InitLocal ==
    /\ graph \in LocalGraphs
    /\ cluster = EmptyCluster
    /\ last = NoCall
    /\ promoted = {}
    /\ definition = DefaultDefinition
    /\ engine \in [source_nodes_in_result : BOOLEAN, max_cluster_size : {1, 2, 100}]
    /\ history = <<>>
    /\ pc = <<"idle", 0>>
    /\ hierarchical = DefaultHierarchical
    /\ returned = NoReturn

\* LocalClusterEngine.cluster up to the first pass: create_cluster,
\* create_step_history, the early return for an empty cluster and the first step().
LocalCluster(source_nodes) ==
    /\ pc = <<"idle", 0>>
    /\ LET r == create_cluster(engine, graph, source_nodes)
       IN /\ cluster' = StateOf(r)
          /\ last' = [op |-> "cluster", none |-> source_nodes.none,
                      items |-> source_nodes.items, err |-> r.err,
                      again |-> FALSE, changed |-> StateOf(r) # cluster,
                      left |-> {}]
          /\ pc' = IF r.err # "none" THEN <<"raised", 0>>
                   ELSE IF Cardinality(r.nodes) = 0 THEN <<"returned", 0>>
                   ELSE <<"expand", 0>>
          /\ history' = IF r.err = "none" /\ Cardinality(r.nodes) > 0
                        THEN <<StepDescriptor>> ELSE <<>>
    /\ UNCHANGED <<graph, promoted, definition, engine, hierarchical, returned>>

\* self._expand_cluster(step_descriptor)
LocalExpand(decisions) ==
    /\ pc = <<"expand", 0>>
    /\ Len(history) <= MaxLocalIterations
    /\ LET r == ExpandWith(graph, Call(cluster), history, decisions)
       IN /\ cluster' = StateOf(r.cluster)
          /\ history' = r.history
          /\ pc' = IF r.cluster.err # "none" THEN <<"raised", 0>> ELSE <<"reduce", 0>>
    /\ returned' = [NoReturn EXCEPT !.op = "gain_of_inclusion",
                                    !.value = {i \in DOMAIN decisions : decisions[i]}]
    /\ UNCHANGED <<graph, last, promoted, definition, engine, hierarchical>>

\* self._reduce_cluster(step_descriptor)
LocalReduce(decisions) ==
    /\ pc = <<"reduce", 0>>
    /\ Len(history) <= MaxLocalIterations
    /\ LET r == ReduceWith(graph, Call(cluster), history, decisions)
       IN /\ cluster' = StateOf(r.cluster)
          /\ history' = r.history
          /\ pc' = IF r.cluster.err # "none" THEN <<"raised", 0>> ELSE <<"check", 0>>
    /\ returned' = [NoReturn EXCEPT !.op = "gain_of_exclusion",
                                    !.value = {i \in DOMAIN decisions : decisions[i]}]
    /\ UNCHANGED <<graph, last, promoted, definition, engine, hierarchical>>

\* The break condition of the while loop, the return, and the step() of the next
\* iteration.
LocalCheck ==
    /\ pc = <<"check", 0>>
    /\ IF LoopEnds(engine, cluster, history)
       THEN pc' = <<"returned", 0>> /\ history' = history
       ELSE /\ history' = Append(history, StepDescriptor)
            /\ pc' = <<"expand", 0>>
    /\ UNCHANGED <<graph, cluster, last, promoted, definition, engine, hierarchical,
                   returned>>

NextLocal ==
    \/ \E source_nodes \in MultiStepSeeds : LocalCluster(source_nodes)
    \/ \E decisions \in [Keys(cluster.neighbors) -> BOOLEAN] : LocalExpand(decisions)
    \/ \E decisions \in [Keys(cluster.nodes) -> BOOLEAN] : LocalReduce(decisions)
    \/ LocalCheck

SpecLocal == InitLocal /\ [][NextLocal]_vars

----------------------------------------------------------------------------
(* Properties of the local cluster engine (SpecLocal, SpecMultiStep).      *)

C37_OnePassEachIsLocalClusterEngine ==
    [][(engine.expansion_step_count = 1 /\ engine.reduction_step_count = 1)
          => NextLocal]_vars

\* A multi-step engine with one pass of each kind has returned from its third
\* iteration, below max_cluster_size, because its history ended in a loop of two
\* steps.
C37_Witness ==
    /\ engine.expansion_step_count = 1
    /\ engine.reduction_step_count = 1
    /\ pc = <<"returned", 0>>
    /\ Len(history) = 3
    /\ Cardinality(cluster.nodes) < engine.max_cluster_size
    /\ Len(find_loop(history, DefaultMaxSequenceLength)) = 2

----------------------------------------------------------------------------
(* The state machine of a caller that clones a ConnectivityClusterDefinition *)
(* and adjusts definition objects.  In this state machine definition holds   *)
(* the caller's objects by name: "original" is the definition clone is        *)
(* called on, "other" a second ConnectivityClusterDefinition, "foreign" an    *)
(* object of another class that has the same two attributes, and "new" the    *)
(* object clone creates when it is handed no base.  An object is a record of  *)
(* its class and its two attributes; its field cloned tells that a clone call *)
(* returned it.                                                               *)

ConnectivityObject(weighting_coefficient, threshold_modifier) ==
    [class |-> "ConnectivityClusterDefinition",
     weighting_coefficient |-> weighting_coefficient,
     threshold_modifier |-> threshold_modifier,
     cloned |-> FALSE]

\* The two attributes of an object.
AttributesOf(object) ==
    [weighting_coefficient |-> object.weighting_coefficient,
     threshold_modifier |-> object.threshold_modifier]

\* clone without the isinstance test on base.
clone_onto_any_base(objects, self, base) ==
    LET target == IF base = "None" THEN "new" ELSE base
        created == [n \in DOMAIN objects \cup {target} |->
                        IF n \in DOMAIN objects THEN objects[n]
                        ELSE ConnectivityObject(DefaultDefinition.weighting_coefficient,
                                                DefaultDefinition.threshold_modifier)]
    IN [objects |-> [created EXCEPT
                        ![target].threshold_modifier = created[self].threshold_modifier,
                        ![target].weighting_coefficient =
                            created[self].weighting_coefficient,
                        ![target].cloned = TRUE],
        value |-> target,
        err |-> "none"]

\* ConnectivityClusterDefinition.clone(base) on the object named self: the objects
\* after the call, the name of the object returned and the exception raised.
clone_onto(objects, self, base) ==
    LET target == IF base = "None" THEN "new" ELSE base
        created == [n \in DOMAIN objects \cup {target} |->
                        IF n \in DOMAIN objects THEN objects[n]
                        ELSE ConnectivityObject(DefaultDefinition.weighting_coefficient,
                                                DefaultDefinition.threshold_modifier)]
    IN IF base # "None" /\ objects[base].class # "ConnectivityClusterDefinition"
       THEN [objects |-> objects, value |-> "None", err |-> "TypeError"]
       ELSE [objects |-> [created EXCEPT
                             ![target].threshold_modifier =
                                 created[self].threshold_modifier,
                             ![target].weighting_coefficient =
                                 created[self].weighting_coefficient,
                             ![target].cloned = TRUE],
             value |-> target,
             err |-> "none"]

InitClone ==
    /\ graph = {}
    /\ cluster = EmptyCluster
    /\ last = NoCall
    /\ promoted = {}
    /\ \E original \in [weighting_coefficient : {<<2, 1>>, One},
                         threshold_modifier : {<<17, 20>>, One}],
          other \in [weighting_coefficient : {<<3, 1>>},
                      threshold_modifier : {<<17, 20>>, <<1, 2>>}] :
          definition =
              [n \in {"original", "other", "foreign"} |->
                  IF n = "original"
                  THEN ConnectivityObject(original.weighting_coefficient,
                                          original.threshold_modifier)
                  ELSE IF n = "other"
                  THEN ConnectivityObject(other.weighting_coefficient,
                                          other.threshold_modifier)
                  ELSE [class |-> "ClusterDefinition",
                        weighting_coefficient |-> <<5, 1>>,
                        threshold_modifier |-> One,
                        cloned |-> FALSE]]
    /\ engine = DefaultEngine
    /\ history = <<>>
    /\ pc = "idle"
    /\ hierarchical = DefaultHierarchical
    /\ returned = NoReturn

\* original.clone(base), once in a behaviour unless the call raised.
Clone(base) ==
    /\ \A n \in DOMAIN definition : ~definition[n].cloned
    /\ LET r == clone_onto(definition, "original", base)
       IN /\ definition' = r.objects
          /\ returned' = [op |-> "clone", args |-> <<base>>,
                          value |-> IF r.err # "none" THEN r.err ELSE r.value,
                          calls |-> returned.calls]
    /\ UNCHANGED <<graph, cluster, last, promoted, engine, history, pc, hierarchical>>

\* adjust_definition_for_next_hierarchy_level(gain_descriptors) called on the
\* ConnectivityClusterDefinition named object.
AdjustObject(object, gain_descriptors) ==
    /\ returned.calls < MaxAdjustments
    /\ object \in DOMAIN definition
    /\ definition[object].class = "ConnectivityClusterDefinition"
    /\ LET r == adjust_definition_for_next_hierarchy_level(
                    AttributesOf(definition[object]), gain_descriptors)
       IN /\ definition' =
                 [definition EXCEPT
                     ![object].weighting_coefficient = r.definition.weighting_coefficient,
                     ![object].threshold_modifier = r.definition.threshold_modifier]
          /\ returned' = [op |-> "adjust", args |-> <<object, gain_descriptors>>,
                          value |-> r.value, calls |-> returned.calls + 1]
    /\ UNCHANGED <<graph, cluster, last, promoted, engine, history, pc, hierarchical>>

NextClone ==
    \/ \E base \in {"None", "original", "other", "foreign"} : Clone(base)
    \/ \E object \in {"original", "other", "new"}, gain_descriptors \in AdjustArgs :
           AdjustObject(object, gain_descriptors)

SpecClone == InitClone /\ [][NextClone]_vars

----------------------------------------------------------------------------
(* Properties of clone (SpecClone).                                        *)

\* What clone does, as the claim C33 has it: without a base it returns a new object,
\* with a ConnectivityClusterDefinition as base it returns the base; the returned
\* object has the attributes of the original, which keeps them; with a base of
\* another class it raises and no object is modified.
CloneCopiesOrRaises ==
    returned'.op = "clone" =>
        LET base == returned'.args[1]
        IN IF base # "None" /\ definition[base].class # "ConnectivityClusterDefinition"
           THEN returned'.value = "TypeError" /\ definition' = definition
           ELSE /\ returned'.value = (IF base = "None" THEN "new" ELSE base)
                /\ AttributesOf(definition'[returned'.value])
                       = AttributesOf(definition["original"])
                /\ AttributesOf(definition'["original"])
                       = AttributesOf(definition["original"])
                /\ \A n \in DOMAIN definition \ {returned'.value} :
                       definition'[n] = definition[n]

\* C33 as stated: clone copies or raises, and no adjustment of the object a clone
\* call returned changes the original.
C33_CloneNeverSharesWithOriginal ==
    [][/\ CloneCopiesOrRaises
       /\ (returned'.op = "adjust" /\ definition[returned'.args[1]].cloned)
              => AttributesOf(definition'["original"])
                    = AttributesOf(definition["original"])]_vars

\* C33, amended: clone copies or raises, and no adjustment of the object a clone call
\* returned changes the original unless that object is the original itself, which
\* is what clone returns when it is handed the original as base.
C33_CloneSharesOnlyWhenBaseIsOriginal ==
    [][/\ CloneCopiesOrRaises
       /\ (returned'.op = "adjust" /\ definition[returned'.args[1]].cloned)
              => (AttributesOf(definition'["original"])
                     = AttributesOf(definition["original"])
                  <=> (returned'.args[1] # "original" \/ ~returned'.value))]_vars

\* The new object returned by clone() was adjusted: its coefficient is above the
\* coefficient of the original.
C33_Witness ==
    /\ returned.op = "adjust"
    /\ returned.args[1] = "new"
    /\ returned.value
    /\ RLess(definition["original"].weighting_coefficient,
             definition["new"].weighting_coefficient)
    /\ definition["new"].threshold_modifier = definition["original"].threshold_modifier

----------------------------------------------------------------------------
(* Properties of the gain descriptors of the connectivity definition       *)
(* (SpecEngine).                                                           *)

\* C34: when the engine is about to evaluate the nodes of a cluster, every
\* gain_of_inclusion and gain_of_exclusion call of the connectivity definition on a
\* boundary node or a member returns a descriptor, without raising, whose node is
\* the evaluated node and whose weighting_coefficient is the coefficient of the
\* definition; and the constructor of ConnectivityGainDescriptor returns an object
\* holding its four arguments.
C34_GainCallsReturnDescriptors ==
    pc = "expand" =>
        \A node \in cluster.neighbors \cup cluster.nodes :
            LET inclusion == gain_of_inclusion(definition, graph, Call(cluster), node)
                exclusion == gain_of_exclusion(definition, graph, Call(cluster), node)
                built == ConnectivityGainDescriptor(
                             node, TRUE, definition.weighting_coefficient, One)
            IN /\ inclusion.err = "none"
               /\ exclusion.err = "none"
               /\ inclusion.node = node /\ exclusion.node = node
               /\ inclusion.weighting_coefficient = definition.weighting_coefficient
               /\ exclusion.weighting_coefficient = definition.weighting_coefficient
               /\ built = [err |-> "none", node |-> node, result |-> TRUE,
                           weighting_coefficient |-> definition.weighting_coefficient,
                           coefficient_multiplier |-> One]

----------------------------------------------------------------------------
(* Properties of the levels of the hierarchical engine (SpecHierarchical). *)

----------------------------------------------------------------------------
(* The state machine of a caller that runs one HierarchicalClusterEngine   *)
(* twice, cluster(source_nodes) after cluster(source_nodes), and may       *)
(* assign the engine's cluster_definition before a run.  The variables are *)
(* those of the state machine of one run; last has one more field,         *)
(* earlier: what the caller kept of the run before and what the wrapped    *)
(* engine's definition was when the second run was called.                 *)

\* No run before.
NoRun ==
    [ran |-> FALSE, none |-> FALSE, items |-> <<>>,
     cluster_definition |-> DefaultDefinition, engine_definition |-> DefaultDefinition,
     pc |-> "idle", history |-> <<>>, cluster |-> EmptyCluster]

RunSeeds == {NoneList} \cup {ListOf(q) : q \in SeqsUpTo({NodeOf(0), NodeOf(3)}, MaxSeeds)}

RunDefinitions ==
    [weighting_coefficient : {<<2, 1>>, One}, threshold_modifier : {<<17, 20>>}]

\* The definition a run goes on with when its wrapped engine was left with d.
effective_cluster_definition_kept(he, d) == d

\* effective_cluster_definition = self.cluster_definition.clone()
effective_cluster_definition(he, d) == clone(he.cluster_definition).base

InitRuns ==
    /\ graph = Triangle
    /\ cluster = EmptyCluster
    /\ last = [op |-> "init", none |-> FALSE, items |-> <<>>, err |-> "none",
               again |-> FALSE, changed |-> FALSE, left |-> {}, earlier |-> NoRun]
    /\ promoted = {}
    /\ definition = DefaultDefinition
    /\ engine = DefaultEngine
    /\ history = <<>>
    /\ pc = "idle"
    /\ hierarchical \in [cluster_definition : RunDefinitions, min_cluster_size : {1, 2}]
    /\ returned = NoReturn

\* engine.cluster_definition = d, before a run.
SetClusterDefinition(d) ==
    /\ pc \in {"idle", "returned", "raised"}
    /\ ~last.earlier.ran
    /\ d # hierarchical.cluster_definition
    /\ hierarchical' = [hierarchical EXCEPT !.cluster_definition = d]
    /\ UNCHANGED <<graph, cluster, last, promoted, definition, engine, history, pc,
                   returned>>

\* HierarchicalClusterEngine.cluster up to the first pass, as a first run or as the
\* run after an earlier one that is over: a new cluster and a new step history, the
\* early return for an empty cluster, the clone and the first test of the loop
\* condition.
HierarchicalRun(source_nodes) ==
    /\ pc \in {"idle", "returned", "raised"}
    /\ ~last.earlier.ran
    /\ LET r == create_cluster(engine, graph, source_nodes)
           started == r.err = "none" /\ Cardinality(r.nodes) # 0
       IN /\ cluster' = StateOf(r)
          /\ last' = [op |-> "cluster", none |-> source_nodes.none,
                      items |-> source_nodes.items, err |-> r.err,
                      again |-> FALSE, changed |-> StateOf(r) # cluster,
                      left |-> {},
                      earlier |-> IF pc = "idle" THEN NoRun
                                  ELSE [ran |-> TRUE, none |-> last.none,
                                        items |-> last.items,
                                        cluster_definition |->
                                            hierarchical.cluster_definition,
                                        engine_definition |-> definition,
                                        pc |-> pc, history |-> history,
                                        cluster |-> cluster]]
          /\ definition' = IF started
                           THEN effective_cluster_definition(hierarchical, definition)
                           ELSE definition
          /\ pc' = IF r.err # "none" THEN "raised"
                   ELSE IF Cardinality(r.nodes) = 0 THEN "returned"
                   ELSE IF BelowMinimum(hierarchical, r) THEN "expand"
                   ELSE "returned"
    /\ history' = <<>>
    /\ returned' = NoReturn
    /\ UNCHANGED <<graph, promoted, engine, hierarchical>>

NextRuns ==
    \/ \E d \in RunDefinitions \cup {[weighting_coefficient |-> <<4, 1>>,
                                        threshold_modifier |-> One]} :
           SetClusterDefinition(d)
    \/ \E source_nodes \in RunSeeds : HierarchicalRun(source_nodes)
    \/ ExpandCluster
    \/ HierarchicalReduce

SpecRuns == InitRuns /\ [][NextRuns]_vars

----------------------------------------------------------------------------
(* Properties of consecutive runs of the hierarchical engine (SpecRuns).   *)

\* C36: every run that starts a level starts it with the weighting coefficient and
\* the threshold modifier of the engine's cluster_definition as the caller set it,
\* whatever definition the wrapped engine was left with, and leaves the caller's
\* definition as it is; and a run called with the source nodes and the caller's
\* definition of the run before it ends as that run did: same outcome, same steps
\* recorded, same cluster.
C36_RunsStartFromCallerDefinition ==
    /\ [][(pc \notin {"expand", "reduce"} /\ pc' = "expand")
              => /\ definition' = hierarchical.cluster_definition
                 /\ hierarchical' = hierarchical]_vars
    /\ []((/\ pc \in {"returned", "raised"}
           /\ last.earlier.ran
           /\ last.earlier.none = last.none
           /\ last.earlier.items = last.items
           /\ last.earlier.cluster_definition = hierarchical.cluster_definition)
              => /\ pc = last.earlier.pc
                 /\ history = last.earlier.history
                 /\ cluster = last.earlier.cluster)

\* A second run was called while the wrapped engine still had a definition other
\* than the caller's, and it has started a level with the caller's values.
C36_Witness ==
    /\ last.earlier.ran
    /\ last.earlier.history # <<>>
    /\ last.earlier.engine_definition # hierarchical.cluster_definition
    /\ pc = "expand"
    /\ definition = hierarchical.cluster_definition

----------------------------------------------------------------------------
(* The state machine of a caller that builds a cluster, hands the          *)
(* descriptors of its rejected boundary nodes to the adjustment of the     *)
(* definition and then has gain_of_inclusion evaluate a boundary node      *)
(* again, the cluster unchanged.  gain_of_inclusion returns no descriptor  *)
(* to build the list from, so the caller builds each descriptor with the   *)
(* constructor of the base class from the values gain_of_inclusion         *)
(* computes.                                                               *)

\* The triangle {0,1,2} with the path 2-3-4 attached.
TriangleWithTail == Triangle \cup {{2, 3}, {3, 4}}

\* The two triangles with one more edge, between 0 and 4.
TwoTrianglesTied == TwoTriangles \cup {{0, 4}}

BoundaryGraphs == {TwoTriangles, TwoTrianglesTied, TriangleWithTail}

BoundarySeeds ==
    {ListOf([k \in 1 .. Len(Ascending(S)) |-> NodeOf(Ascending(S)[k])]) :
        S \in (SUBSET (0 .. 3)) \ {{}}}

\* Weighting coefficients 1/2, 40/41 and 1, threshold modifiers 0.85 and 1.
BoundaryDefinitions ==
    [weighting_coefficient : {<<1, 2>>, <<40, 41>>, One},
     threshold_modifier : {<<17, 20>>, One}]

\* The arguments gain_of_inclusion computes for the descriptor of node, handed to
\* the constructor of GainDescriptor.
inclusion_descriptor(d, g, c, node) ==
    LET q == quality_difference(d, g, c, node)
    IN IF RLess(Zero, q)
       THEN GainDescriptor(<<node, ~RLess(q, threshold(d, g, c, node)),
                             d.weighting_coefficient, RDiv(threshold(d, g, c, node), q)>>)
       ELSE GainDescriptor(<<node, FALSE, d.weighting_coefficient, Zero>>)

\* The descriptors of the boundary nodes that are not accepted, in the order of the
\* boundary.
NotAddedDescriptors(d, g, c) ==
    LET idx == Ascending({i \in Keys(c.neighbors) :
                            ~inclusion_descriptor(d, g, c, get(c.neighbors, i)).result})
    IN [k \in 1 .. Len(idx) |-> inclusion_descriptor(d, g, c, get(c.neighbors, idx[k]))]

InitBoundary ==
    /\ graph \in BoundaryGraphs
    /\ cluster = EmptyCluster
    /\ last = NoCall
    /\ promoted = {}
    /\ definition \in BoundaryDefinitions
    /\ engine = DefaultEngine
    /\ history = <<>>
    /\ pc = "idle"
    /\ hierarchical = DefaultHierarchical
    /\ returned = NoReturn

\* cluster = engine.create_cluster(source_nodes)
BoundaryCluster(source_nodes) ==
    /\ pc = "idle"
    /\ LET r == create_cluster(engine, graph, source_nodes)
       IN /\ cluster' = StateOf(r)
          /\ last' = [op |-> "create_cluster", none |-> source_nodes.none,
                      items |-> source_nodes.items, err |-> r.err,
                      again |-> FALSE, changed |-> StateOf(r) # cluster, left |-> {}]
          /\ pc' = IF r.err # "none" THEN "raised" ELSE "built"
    /\ UNCHANGED <<graph, promoted, definition, engine, history, hierarchical, returned>>

\* definition.adjust_definition_for_next_hierarchy_level(gain_descriptors), with the
\* descriptors of the boundary nodes that are not accepted.
BoundaryAdjust ==
    /\ pc = "built"
    /\ LET gain_descriptors == ListOf(NotAddedDescriptors(definition, graph, Call(cluster)))
           r == adjust_definition_for_next_hierarchy_level(definition, gain_descriptors)
       IN /\ definition' = r.definition
          /\ returned' = [op |-> "adjust", args |-> gain_descriptors, value |-> r.value,
                          calls |-> returned.calls + 1]
    /\ pc' = "adjusted"
    /\ UNCHANGED <<graph, cluster, last, promoted, engine, history, hierarchical>>

\* definition.gain_of_inclusion(node, cluster), after the adjustment.
BoundaryGain(node) ==
    /\ pc = "adjusted"
    /\ node \in cluster.neighbors
    /\ LET r == gain_of_inclusion(definition, graph, Call(cluster), node)
       IN /\ returned' = [op |-> "gain_of_inclusion", args |-> <<node>>, value |-> r,
                          calls |-> returned.calls]
          /\ pc' = IF r.err # "none" THEN "raised" ELSE "evaluated"
    /\ UNCHANGED <<graph, cluster, last, promoted, definition, engine, history,
                   hierarchical>>

NextBoundary ==
    \/ \E source_nodes \in BoundarySeeds : BoundaryCluster(source_nodes)
    \/ BoundaryAdjust
    \/ \E node \in EngineNodes : BoundaryGain(node)

SpecBoundary == InitBoundary /\ [][NextBoundary]_vars

----------------------------------------------------------------------------
(* Properties of the evaluation after an adjustment (SpecBoundary).        *)

\* C38: after an adjustment that returned true, gain_of_inclusion called for the
\* rejected boundary node whose descriptor had the smallest coefficient multiplier
\* above 1, with the adjusted definition and the cluster unchanged, returns a
\* descriptor that accepts the node.
C38_SmallestRejectedIsAcceptedAfterAdjust ==
    [][(/\ returned.op = "adjust" /\ returned.value
        /\ returned'.op = "gain_of_inclusion"
        /\ \E k \in 1 .. Len(returned.args.items) :
               /\ returned.args.items[k].node = returned'.args[1]
               /\ returned.args.items[k].coefficient_multiplier
                      = SmallestMultiplierAboveOne(returned.args.items, None))
           => /\ returned'.value.err = "none"
              /\ returned'.value.result
              /\ cluster' = cluster]_vars

----------------------------------------------------------------------------
(* The state machine of validate() called on a cluster whose fields hold   *)
(* anything: every dictionary any set of the graph's nodes, each under its *)
(* own index, and the degree any number up to MaxDegree.                   *)

\* Largest value of the degree field.
MaxDegree == 7

InitValidate ==
    /\ graph \in SUBSET AllEdges
    /\ cluster \in {[source_nodes |-> s, nodes |-> n, neighbors |-> b, degree |-> d,
                     listeners |-> n] :
                        s \in SUBSET GraphNodes, n \in SUBSET GraphNodes,
                        b \in SUBSET GraphNodes, d \in 0 .. MaxDegree}
    /\ last = NoCall
    /\ promoted = {}
    /\ EngineIdle

\* cluster.validate(): the three checks read the dictionaries, the degree and the
\* nodes' neighbors and assign nothing.
Validate ==
    /\ pc = "idle"
    /\ LET r == validate(graph, Call(cluster))
       IN /\ returned' = [op |-> "validate", args |-> <<>>, value |-> r,
                          calls |-> returned.calls]
          /\ pc' = IF r.err # "none" THEN "raised" ELSE "returned"
    /\ UNCHANGED <<graph, cluster, last, promoted, definition, engine, history,
                   hierarchical>>

NextValidate == Validate

SpecValidate == InitValidate /\ [][NextValidate]_vars

----------------------------------------------------------------------------
(* Properties of validate (SpecValidate).                                  *)

\* The four ways a cluster over the graph g can be inconsistent.
SourceNodeNotMember(c) == \E s \in c.source_nodes : s \notin c.nodes

MemberNeighborUncovered(g, c) ==
    \E m \in c.nodes : \E i \in NeighborIndices(g, m) :
        NodeOf(i) \notin c.nodes /\ NodeOf(i) \notin c.neighbors

BoundaryNodeMisplaced(g, c) ==
    \E b \in c.neighbors :
        \/ b \in c.nodes
        \/ \A i \in NeighborIndices(g, b) : NodeOf(i) \notin c.nodes

DegreeFieldWrong(g, c) ==
    c.degree # Cardinality({<<m, i>> \in c.nodes \X Indices : i \in NeighborIndices(g, m)})

\* C39: validate() called on any cluster state without two objects of one index
\* returns, without raising, a list that is not empty whenever a source node is not
\* a member, a neighbor of a member is neither a member nor in the boundary, a
\* boundary node is a member or has no member neighbor, or the degree field is not
\* the sum of the members' degrees; and the call leaves the cluster and the graph as
\* they were.
C39_ValidateFindsEveryBrokenInvariant ==
    [][returned'.op = "validate" /\ returned.op # "validate"
          => /\ returned'.value.err = "none"
             /\ (\/ SourceNodeNotMember(cluster)
                 \/ MemberNeighborUncovered(graph, cluster)
                 \/ BoundaryNodeMisplaced(graph, cluster)
                 \/ DegreeFieldWrong(graph, cluster))
                    => returned'.value.problems # {}
             /\ cluster' = cluster
             /\ graph' = graph]_vars

\* validate() has returned problems for a cluster whose only inconsistency is a
\* boundary node that is a member as well.
C39_Witness ==
    /\ returned.op = "validate"
    /\ pc = "returned"
    /\ returned.value.problems # {}
    /\ cluster.neighbors \cap cluster.nodes # {}
    /\ \A b \in cluster.neighbors :
           \E i \in NeighborIndices(graph, b) : NodeOf(i) \in cluster.nodes
    /\ ~SourceNodeNotMember(cluster)
    /\ ~MemberNeighborUncovered(graph, cluster)
    /\ ~DegreeFieldWrong(graph, cluster)

====
